---- MODULE Spec2Model ----
(***************************************************************************)
(* A model of the spew value renderer: the verbose dumper (dump.go), the   *)
(* compact formatter (format.go), the shared cycle tracker, method         *)
(* invoker, dispatcher and key sorter (common code), and the pools they    *)
(* draw their per-call state from.                                         *)
(*                                                                         *)
(* A rendered value is a node of Heap, a small fixed graph of Go values,   *)
(* which the variable heap holds unchanged from the initial state on.      *)
(* A reflect.Value is a handle [n, ro, ad]: the node, the read-only flag   *)
(* reflect sets on what was reached through a non-exported field, and the  *)
(* addressable flag.  The recursion of the renderers is kept on an         *)
(* explicit stack of frames, one stack per call, so that every call of a   *)
(* recursive function is a step of the model.                              *)
(***************************************************************************)
EXTENDS Integers, Sequences, FiniteSets, TLC

\* ------------------------------------------------------------------ bounds

\* derefPtr's loop is followed for at most this many links in one pass.
MaxChain == 4

\* The hex renderer is given at most this many bytes, and the pooled dumper
\* is used by at most this many calls of hexDump.
MaxBytes == 33
MaxUses == 2

\* ------------------------------------------------------------- the values

NIL == "nil"

\* Byte strings written by the renderers.
panicBytes == "(PANIC="
interfaceBytes == "(interface {})"
commaNewlineBytes == ",\n"
newlineBytes == "\n"
openBraceBytes == "{"
openBraceNewlineBytes == "{\n"
closeBraceBytes == "}"
asteriskBytes == "*"
colonBytes == ":"
colonSpaceBytes == ": "
openParenBytes == "("
closeParenBytes == ")"
spaceBytes == " "
pointerChainBytes == "->"
nilAngleBytes == "<nil>"
maxNewlineBytes == "<max depth reached>\n"
maxShortBytes == "<max>"
circularBytes == "<already shown>"
circularShortBytes == "<shown>"
invalidAngleBytes == "<invalid>"
openBracketBytes == "["
closeBracketBytes == "]"
openAngleBytes == "<"
closeAngleBytes == ">"
openMapBytes == "map["
closeMapBytes == "]"
lenEqualsBytes == "len="
capEqualsBytes == "cap="

\* A node of the value graph.  kind is the reflect.Kind, ty the type's name,
\* to the target of a pointer or the content of an interface, elems the
\* fields, elements or keys, vals the values of a mapping (by key position),
\* names and ex the names of a record's fields and whether each is exported,
\* val the number a scalar holds, nan whether a float is not a number,
\* meth/mpanic/mtext/precv the Error or String method of the type: which
\* one it has ("both" for a type with the two), whether calling it on this
\* value panics, the text it returns, and whether it has a pointer receiver;
\* stext is the text of String for a type with the two methods.  mtext is
\* also the text of a string.
Nd ==
  [kind |-> "int", ty |-> "int", to |-> NIL, elems |-> <<>>, vals |-> <<>>,
   names |-> <<>>, ex |-> <<>>, isnil |-> FALSE, val |-> 0, nan |-> FALSE,
   meth |-> "none", mpanic |-> FALSE, mtext |-> <<>>, precv |-> FALSE,
   stext |-> <<>>]

IntN(n) == [Nd EXCEPT !.val = n]
PtrN(ty, to) == [Nd EXCEPT !.kind = "ptr", !.ty = ty, !.to = to]
IfaceN(to) == [Nd EXCEPT !.kind = "iface", !.ty = "interface {}", !.to = to]
SliceN(ty, elems) == [Nd EXCEPT !.kind = "slice", !.ty = ty, !.elems = elems]
ArrayN(ty, elems) == [Nd EXCEPT !.kind = "array", !.ty = ty, !.elems = elems]
MapN(ty, keys, vals) ==
  [Nd EXCEPT !.kind = "map", !.ty = ty, !.elems = keys, !.vals = vals]
StructN(ty, names, ex, elems) ==
  [Nd EXCEPT !.kind = "struct", !.ty = ty, !.names = names, !.ex = ex,
             !.elems = elems]
WithMethod(nd, meth, mpanic, mtext) ==
  [nd EXCEPT !.meth = meth, !.mpanic = mpanic, !.mtext = mtext]
BoolN(b) == [Nd EXCEPT !.kind = "bool", !.ty = "bool", !.val = b]
FloatN(n, nan) ==
  [Nd EXCEPT !.kind = "float", !.ty = "float64", !.val = n, !.nan = nan]
StringN(text) == [Nd EXCEPT !.kind = "string", !.ty = "string", !.mtext = text]
NilN(nd) == [nd EXCEPT !.isnil = TRUE]

Heap ==
  [ i1 |-> IntN(1), i2 |-> IntN(2), i3 |-> IntN(3),
    \* s := &S1{}; s.p = s
    S1 |-> StructN("S1", <<"p">>, <<TRUE>>, <<"pS1">>),
    pS1 |-> PtrN("*S1", "S1"),
    \* s := &S2{}; s.a = s; s.b = s
    S2 |-> StructN("S2", <<"a", "b">>, <<TRUE, TRUE>>, <<"pS2", "pS2">>),
    pS2 |-> PtrN("*S2", "S2"),
    \* var v interface{}; v = &v
    I0 |-> IfaceN("pI0"),
    pI0 |-> PtrN("*interface {}", "I0"),
    \* x := 1; p := &x; T3{A: []*int{p}, B: [][]*int{{p}}}
    pX |-> PtrN("*int", "i1"),
    slA |-> SliceN("[]*int", <<"pX">>),
    slB1 |-> SliceN("[]*int", <<"pX">>),
    slB |-> SliceN("[][]*int", <<"slB1">>),
    T3 |-> StructN("T3", <<"A", "B">>, <<TRUE, TRUE>>, <<"slA", "slB">>),
    \* T5{A: []*int{p}, B: p}
    T5 |-> StructN("T5", <<"A", "B">>, <<TRUE, TRUE>>, <<"slA", "pX">>),
    \* T4{A: p, B: p}
    T4 |-> StructN("T4", <<"A", "B">>, <<TRUE, TRUE>>, <<"pX", "pX">>),
    \* map[[2]int]int{{1, 2}: 1, {1, 3}: 2}, also as the non-exported field of U1
    a12 |-> ArrayN("[2]int", <<"i1", "i2">>),
    a13 |-> ArrayN("[2]int", <<"i1", "i3">>),
    mArr |-> MapN("map[[2]int]int", <<"a12", "a13">>, <<"i1", "i2">>),
    U1 |-> StructN("U1", <<"m">>, <<FALSE>>, <<"mArr">>),
    \* map[K]int{{1}: 1, {2}: 2}, K a record without methods, also in U2
    k1 |-> StructN("K", <<"a">>, <<TRUE>>, <<"i1">>),
    k2 |-> StructN("K", <<"a">>, <<TRUE>>, <<"i2">>),
    mSt |-> MapN("map[K]int", <<"k1", "k2">>, <<"i1", "i2">>),
    U2 |-> StructN("U2", <<"m">>, <<FALSE>>, <<"mSt">>),
    \* map[K]int{{1}: 1}
    mK1 |-> MapN("map[K]int", <<"k1">>, <<"i1">>),
    \* map[int]int{1: 1, 2: 2}
    mInt |-> MapN("map[int]int", <<"i1", "i2">>, <<"i1", "i2">>),
    \* Q has a String method that panics on the value {1}, and returns "q"
    \* on {2} and on {3}
    q1 |-> WithMethod(StructN("Q", <<"a">>, <<TRUE>>, <<"i1">>),
                      "String", TRUE, <<"boom">>),
    q2 |-> WithMethod(StructN("Q", <<"a">>, <<TRUE>>, <<"i2">>),
                      "String", FALSE, <<"q">>),
    q3 |-> WithMethod(StructN("Q", <<"a">>, <<TRUE>>, <<"i3">>),
                      "String", FALSE, <<"q">>),
    slQ |-> SliceN("[]Q", <<"q1", "q2">>),
    \* R{x: Q{1}, y: 2} and map[int]Q{1: Q{1}, 2: Q{2}}
    R1 |-> StructN("R", <<"x", "y">>, <<TRUE, TRUE>>, <<"q1", "i2">>),
    mP |-> MapN("map[int]Q", <<"i1", "i2">>, <<"q1", "q2">>),
    mQ |-> MapN("map[Q]int", <<"q2", "q3">>, <<"i1", "i2">>),
    \* N1{a: 1, in: N2{b: 2}, z: 3}
    N2 |-> StructN("N2", <<"b">>, <<TRUE>>, <<"i2">>),
    N1 |-> StructN("N1", <<"a", "in", "z">>, <<TRUE, TRUE, TRUE>>,
                   <<"i1", "N2", "i3">>),
    \* a nil *int
    pNil |-> PtrN("*int", NIL),
    \* m := map[W]int{{1}: 1, {2}: 2}; &m
    pMW |-> PtrN("*map[W]int", "mW"),
    \* T6{A: []*int{nil}, B: 2}
    slP |-> SliceN("[]*int", <<"pNil">>),
    T6 |-> StructN("T6", <<"A", "B">>, <<TRUE, TRUE>>, <<"slP", "i2">>),
    \* E{1}: E has an Error method returning "err" and a String method
    \* returning "str"
    e1 |-> [WithMethod(StructN("E", <<"a">>, <<TRUE>>, <<"i1">>),
                       "both", FALSE, <<"err">>) EXCEPT !.stext = <<"str">>],
    \* map[W]int{{1}: 1, {2}: 2}: W{1}.String() is "b", W{2}.String() is "a"
    w1 |-> WithMethod(StructN("W", <<"a">>, <<TRUE>>, <<"i1">>),
                      "String", FALSE, <<"b">>),
    w2 |-> WithMethod(StructN("W", <<"a">>, <<TRUE>>, <<"i2">>),
                      "String", FALSE, <<"a">>),
    mW |-> MapN("map[W]int", <<"w1", "w2">>, <<"i1", "i2">>),
    \* &Q{2}, []interface{}{Q{2}}, MyInt(3) with a String method, and
    \* SL{1}, a slice type with a String method
    pQ2 |-> PtrN("*Q", "q2"),
    iQ2 |-> IfaceN("q2"),
    slI |-> SliceN("[]interface {}", <<"iQ2">>),
    n3 |-> WithMethod([IntN(3) EXCEPT !.ty = "MyInt"], "String", FALSE,
                      <<"three">>),
    sM |-> WithMethod(SliceN("SL", <<"i1">>), "String", FALSE, <<"sl">>),
    \* map[bool]int{true: 1, false: 2}
    bT |-> BoolN(1), bF |-> BoolN(0),
    mB |-> MapN("map[bool]int", <<"bT", "bF">>, <<"i1", "i2">>),
    \* map[float64]int{2: 1, 1: 2} and map[float64]int{2: 1, NaN: 2, 1: 3}
    f1 |-> FloatN(1, FALSE), f2 |-> FloatN(2, FALSE), fNaN |-> FloatN(0, TRUE),
    mF |-> MapN("map[float64]int", <<"f2", "f1">>, <<"i1", "i2">>),
    mFN |-> MapN("map[float64]int", <<"f2", "fNaN", "f1">>,
                 <<"i1", "i2", "i3">>),
    \* map[string]int{"b": 1, "a": 2}
    sA |-> StringN(<<"a">>), sB |-> StringN(<<"b">>),
    mS |-> MapN("map[string]int", <<"sB", "sA">>, <<"i1", "i2">>),
    \* []int(nil), []int{}, map[int]int(nil) and map[int]int{}
    slNil |-> NilN(SliceN("[]int", <<>>)),
    slE |-> SliceN("[]int", <<>>),
    mNil |-> NilN(MapN("map[int]int", <<>>, <<>>)),
    mE |-> MapN("map[int]int", <<>>, <<>>) ]

Nodes == DOMAIN Heap

\* The objects in memory, by address: the renderers only read them.
VARIABLE heap

\* The values passed to the top-level calls.
Roots ==
  {"pS1", "pS2", "pI0", "T3", "T4", "T5", "mArr", "U1", "mSt", "U2", "mInt",
   "slQ", "R1", "mP", "mQ", "N1", "pNil"}

\* reflect.ValueOf(arg): neither read-only nor addressable.
ValueOf(n) == [n |-> n, ro |-> FALSE, ad |-> FALSE]

NoV == [n |-> NIL, ro |-> FALSE, ad |-> FALSE]

Kind(v) == IF v.n = NIL THEN "invalid" ELSE heap[v.n].kind
TypeString(v) == heap[v.n].ty
IsNil(v) == IF Kind(v) \in {"ptr", "iface"} THEN heap[v.n].to = NIL
            ELSE heap[v.n].isnil
ValueLen(v) == Len(heap[v.n].elems)
CanInterface(v) == ~v.ro
CanAddr(v) == v.ad

\* reflect's Elem: what a pointer points to is addressable, what an interface
\* holds is not; the read-only flag is inherited.
Elem(v) ==
  [n |-> heap[v.n].to, ro |-> v.ro, ad |-> (Kind(v) = "ptr")]

\* reflect's Field: read-only when the field is not exported.
Field(v, i) ==
  [n |-> heap[v.n].elems[i], ro |-> (v.ro \/ ~heap[v.n].ex[i]), ad |-> v.ad]

\* reflect's Index: the elements of a slice are addressable, those of an array
\* when the array is.
Index(v, i) ==
  [n |-> heap[v.n].elems[i], ro |-> v.ro,
   ad |-> (Kind(v) = "slice" \/ v.ad)]

\* The key at position i of the mapping, and the value stored under the key.
MapKey(v, i) == [n |-> heap[v.n].elems[i], ro |-> v.ro, ad |-> FALSE]
\* No key is equal to a float that is not a number: MapIndex finds nothing
\* under it and returns the zero Value.
MapIndex(v, key) ==
  LET i == CHOOSE j \in 1..ValueLen(v) : heap[v.n].elems[j] = key.n
  IN IF heap[key.n].nan THEN NoV
     ELSE [n |-> heap[v.n].vals[i], ro |-> (v.ro \/ key.ro), ad |-> FALSE]

\* The orders in which MapKeys may return the n keys of a mapping.
Perms(n) ==
  {p \in [1..n -> 1..n] : \A i, j \in 1..n : p[i] = p[j] => i = j}

\* ---------------------------------------------------------- configuration

\* The package's default configuration, spew.Config.
Config ==
  [Indent |-> " ", MaxDepth |-> 0, DisableMethods |-> FALSE,
   DisablePointerMethods |-> FALSE, DisablePointerAddresses |-> FALSE,
   DisableCapacities |-> FALSE, ContinueOnMethod |-> FALSE,
   SortKeys |-> FALSE, SpewKeys |-> FALSE]

\* The configurations the calls are made with, besides the default.
SortCfg == [Config EXCEPT !.SortKeys = TRUE]
SpewCfg == [Config EXCEPT !.SortKeys = TRUE, !.SpewKeys = TRUE]
DepthCfg == [Config EXCEPT !.MaxDepth = 1]
ContCfg == [Config EXCEPT !.ContinueOnMethod = TRUE]
NoMethodsCfg == [Config EXCEPT !.DisableMethods = TRUE]

\* Whether the build has the unsafe bypass of reflect's visibility rules.
UnsafeDisabled == FALSE

\* unsafeReflectValue: the same value with the read-only flag cleared and the
\* addressable flag set.
unsafeReflectValue(v) == [v EXCEPT !.ro = FALSE, !.ad = TRUE]

\* ------------------------------------------------------------ number text

Digits == <<"0", "1", "2", "3", "4", "5", "6", "7", "8", "9">>

RECURSIVE AppendUint(_)
AppendUint(n) ==
  IF n < 10 THEN <<Digits[n + 1]>>
  ELSE AppendUint(n \div 10) \o <<Digits[(n % 10) + 1]>>

\* The one element of a set of one element.
The(S) == CHOOSE x \in S : TRUE

\* strconv.AppendInt in base 10, as printInt uses it.
printInt(n) == IF n < 0 THEN <<"-">> \o AppendUint(0 - n) ELSE AppendUint(n)

\* printHexPtr: the address of a node, written as the code writes a uintptr.
printHexPtr(addr) == IF addr = NIL THEN <<nilAngleBytes>> ELSE <<"0x", addr>>

\* A uint64 is four limbs of 16 bits, the most significant first: its
\* remainder and quotient by 16, and its comparison with 16 and with 0.
hexDigits ==
  <<"0", "1", "2", "3", "4", "5", "6", "7", "8", "9", "a", "b", "c", "d",
    "e", "f">>
Mod16(num) == num[4] % 16
Div16(num) ==
  <<num[1] \div 16,
    (num[2] \div 16) + (num[1] % 16) * 4096,
    (num[3] \div 16) + (num[2] % 16) * 4096,
    (num[4] \div 16) + (num[3] % 16) * 4096>>
AtLeast16(num) == num[1] > 0 \/ num[2] > 0 \/ num[3] > 0 \/ num[4] >= 16
IsZero(num) == num = <<0, 0, 0, 0>>

\* A buffer is its backing array mem (cap(b.buf) bytes) and len(b.buf).
new_buffer == [mem |-> <<>>, len |-> 0]

\* buffer.Reset
buffer_Reset(b) == [b EXCEPT !.len = 0]

\* A Grow that adds one byte less than asked.
buffer_GrowLess(b, n) ==
  IF n < Len(b.mem) - b.len THEN [b EXCEPT !.len = @ + n - 1]
  ELSE [mem |-> SubSeq(b.mem, 1, b.len) \o [i \in 1..(n - 1) |-> "\\0"],
        len |-> b.len + n - 1]

\* buffer.Grow: the slice is lengthened in place when the capacity allows
\* it, else copied to a new array of the new length.
buffer_Grow(b, n) ==
  IF n < Len(b.mem) - b.len THEN [b EXCEPT !.len = @ + n]
  ELSE [mem |-> SubSeq(b.mem, 1, b.len) \o [i \in 1..n |-> "\\0"],
        len |-> b.len + n]

\* bufferGet: the pooled buffer, reset.
bufferGet(b) == buffer_Reset(b)

\* buf[i] = c with the index i of the code, counted from 0: an index out
\* of range panics and nothing more is done.
SetIndex(r, c) ==
  IF r.panicked THEN r
  ELSE IF r.i < 0 \/ r.i >= r.b.len THEN [r EXCEPT !.panicked = TRUE]
  ELSE [r EXCEPT !.b.mem[r.i + 1] = c, !.low = r.i]

\* The loop of printHexPtr: the digits from right to left while num >= 16.
RECURSIVE printHexPtr_loop(_)
printHexPtr_loop(r) ==
  IF AtLeast16(r.num) /\ ~r.panicked
  THEN The({printHexPtr_loop([g EXCEPT !.num = Div16(@), !.i = @ - 1]) :
              g \in {SetIndex(r, hexDigits[Mod16(r.num) + 1])}})
  ELSE r

\* printHexPtr of the uintptr p with the pooled buffer b: out is what the
\* writer receives, b the buffer put back, low the lowest index written.
printHexPtr_uintptr(b, p) ==
  LET b1 == buffer_Grow(bufferGet(b), 18)
      r1 == printHexPtr_loop([b |-> b1, num |-> p, i |-> b1.len - 1,
                              low |-> b1.len, panicked |-> FALSE])
      r2 == SetIndex(r1, hexDigits[Mod16(r1.num) + 1])
      r3 == SetIndex([r2 EXCEPT !.i = @ - 1], "x")
      r4 == SetIndex([r3 EXCEPT !.i = @ - 1], "0")
  IN IF IsZero(p)
     THEN [b |-> b, out |-> <<nilAngleBytes>>, low |-> 0, panicked |-> FALSE]
     ELSE [b |-> r4.b,
           out |-> IF r4.panicked THEN <<>>
                   ELSE SubSeq(r4.b.mem, r4.i + 1, r4.b.len),
           low |-> r4.low, panicked |-> r4.panicked]

\* --------------------------------------------------------- cycle tracker

EmptyMap == [a \in {} |-> 0]

\* A cycleInfo as cycleInfo.Reset leaves it.
cycleInfo_Reset(id) ==
  [id |-> id, pointers |-> EmptyMap, pointerChain |-> <<>>,
   nilFound |-> FALSE, cycleFound |-> FALSE, indirects |-> 0]

\* The start of derefPtr: the chain is emptied, the entries recorded at the
\* depth of this pass or deeper are removed, the flags are cleared.
derefPtrBegin(ci, depth) ==
  [ci EXCEPT !.pointerChain = <<>>,
             !.pointers = [a \in {k \in DOMAIN ci.pointers :
                                    ~(ci.pointers[k] >= depth)}
                           |-> ci.pointers[a]],
             !.nilFound = FALSE, !.cycleFound = FALSE, !.indirects = 0]

\* Whether the pointer at address addr is a repeated one for a pass at depth.
derefPtrCycle(ci, addr, depth) ==
  addr \in DOMAIN ci.pointers /\ ci.pointers[addr] < depth

\* A repeated pointer that stays counted in indirects.
derefPtrFoundCounted(ci) == [ci EXCEPT !.cycleFound = TRUE]

\* What derefPtr does for a repeated pointer: it is not counted.
derefPtrFound(ci) == [ci EXCEPT !.cycleFound = TRUE, !.indirects = @ - 1]

Put(f, k, x) == [a \in (DOMAIN f) \cup {k} |-> IF a = k THEN x ELSE f[a]]

\* One turn of derefPtr's loop on the pointer ve: the result is the new
\* cycleInfo, the next ve and whether the loop goes on.
derefPtrStep(ci, ve, depth) ==
  IF IsNil(ve) THEN
    [ci |-> [ci EXCEPT !.nilFound = TRUE], ve |-> ve, more |-> FALSE]
  ELSE
    LET addr == heap[ve.n].to
        c1 == [ci EXCEPT !.indirects = @ + 1,
                         !.pointerChain = Append(@, addr)]
    IN IF derefPtrCycle(c1, addr, depth) THEN
         [ci |-> derefPtrFound(c1), ve |-> ve, more |-> FALSE]
       ELSE
         LET c2 == [c1 EXCEPT !.pointers = Put(@, addr, depth)]
             e1 == Elem(ve)
         IN IF Kind(e1) = "iface" THEN
              IF IsNil(e1) THEN
                [ci |-> [c2 EXCEPT !.nilFound = TRUE], ve |-> e1,
                 more |-> FALSE]
              ELSE
                [ci |-> c2, ve |-> Elem(e1),
                 more |-> (Kind(Elem(e1)) = "ptr")]
            ELSE [ci |-> c2, ve |-> e1, more |-> (Kind(e1) = "ptr")]

\* -------------------------------------------------------- method invoker

\* What catchPanic writes for a method that panicked with the text msg.
\* A recover that writes nothing.
catchPanicSilent(msg) == <<>>

\* catchPanic: what it writes when the method panicked with msg.
catchPanic(msg) == <<panicBytes>> \o msg \o <<closeParenBytes>>

\* A type switch that tries fmt.Stringer before error.
typeSwitchStringerFirst(nd) ==
  IF nd.meth \in {"String", "both"} THEN "String" ELSE "Error"

\* The type switch of handleMethods: error is tried before fmt.Stringer.
typeSwitch(nd) ==
  IF nd.meth \in {"Error", "both"} THEN "Error" ELSE "String"

\* What the method returns, or the text it panics with.
methodText(nd, which) ==
  IF which = "String" /\ nd.meth = "both" THEN nd.stext ELSE nd.mtext

\* A case of the type switch that never looks at ContinueOnMethod.
invokeMethodNoContinue(cs, nd, which) ==
  IF nd.mpanic
  THEN [out |-> catchPanic(methodText(nd, which)), handled |-> FALSE]
  ELSE [out |-> methodText(nd, which), handled |-> TRUE]

\* A case of the type switch of handleMethods, with the deferred catchPanic:
\* the text written and the result.  After a panic of the method the result
\* is the zero value of the named result, false.
invokeMethod(cs, nd, which) ==
  IF cs.ContinueOnMethod THEN
    IF nd.mpanic THEN
      [out |-> <<openParenBytes>> \o catchPanic(methodText(nd, which)),
       handled |-> FALSE]
    ELSE
      [out |-> <<openParenBytes>> \o methodText(nd, which)
                 \o <<closeParenBytes, spaceBytes>>,
       handled |-> FALSE]
  ELSE
    IF nd.mpanic
    THEN [out |-> catchPanic(methodText(nd, which)), handled |-> FALSE]
    ELSE [out |-> methodText(nd, which), handled |-> TRUE]

\* handleMethods: the text written, whether the value counts as handled, and
\* which method was invoked ("none" when none was).
handleMethods(cs, v) ==
  LET none == [out |-> <<>>, handled |-> FALSE, invoked |-> "none"]
  IN IF ~CanInterface(v) /\ UnsafeDisabled THEN none
     ELSE
       LET v1 == IF ~CanInterface(v) THEN unsafeReflectValue(v) ELSE v
           v2 == IF ~cs.DisablePointerMethods /\ ~UnsafeDisabled /\ ~CanAddr(v1)
                 THEN unsafeReflectValue(v1) ELSE v1
           nd == heap[v.n]
           has == nd.meth # "none" /\ (nd.precv => CanAddr(v2))
           which == typeSwitch(nd)
           r == invokeMethod(cs, nd, which)
       IN IF ~has THEN none
          ELSE [out |-> r.out, handled |-> r.handled, invoked |-> which]

\* ------------------------------------------------------------- key sorter

\* The bytes of the pieces of text that the sorter compares.
TokBytes(tok) ==
  CASE tok = "(" -> <<40>>
    [] tok = ")" -> <<41>>
    [] tok = "{" -> <<123>>
    [] tok = "}" -> <<125>>
    [] tok = ":" -> <<58>>
    [] tok = " " -> <<32>>
    [] tok = "[" -> <<91>>
    [] tok = "]" -> <<93>>
    [] tok = "*" -> <<42>>
    [] tok = "<" -> <<60>>
    [] tok = ">" -> <<62>>
    [] tok = "map[" -> <<109, 97, 112, 91>>
    [] tok = "<nil>" -> <<60, 110, 105, 108, 62>>
    [] tok = "<shown>" -> <<60, 115, 104, 111, 119, 110, 62>>
    [] tok = "<max>" -> <<60, 109, 97, 120, 62>>
    [] tok = "(PANIC=" -> <<40, 80, 65, 78, 73, 67, 61>>
    [] tok = "0" -> <<48>>
    [] tok = "1" -> <<49>>
    [] tok = "2" -> <<50>>
    [] tok = "3" -> <<51>>
    [] tok = "4" -> <<52>>
    [] tok = "5" -> <<53>>
    [] tok = "6" -> <<54>>
    [] tok = "7" -> <<55>>
    [] tok = "8" -> <<56>>
    [] tok = "9" -> <<57>>
    [] tok = "-" -> <<45>>
    [] tok = "int" -> <<105, 110, 116>>
    [] tok = "K" -> <<75>>
    [] tok = "Q" -> <<81>>
    [] tok = "a" -> <<97>>
    [] tok = "q" -> <<113>>
    [] tok = "boom" -> <<98, 111, 111, 109>>
    [] tok = "W" -> <<87>>
    [] tok = "S1" -> <<83, 49>>
    [] tok = "p" -> <<112>>
    [] tok = "interface {}" -> <<105, 110, 116, 101, 114, 102, 97, 99, 101, 32, 123, 125>>
    [] tok = "*int" -> <<42, 105, 110, 116>>
    [] tok = "N2" -> <<78, 50>>
    [] tok = "b" -> <<98>>
    [] tok = "[2]int" -> <<91, 50, 93, 105, 110, 116>>
    [] tok = "(interface {})" -> <<40, 105, 110, 116, 101, 114, 102, 97, 99, 101, 32, 123, 125, 41>>

RECURSIVE Bytes(_)
Bytes(text) ==
  IF text = <<>> THEN <<>> ELSE TokBytes(Head(text)) \o Bytes(Tail(text))

\* Go's < on strings: byte-wise lexicographic.
StringLess(x, y) ==
  LET a == Bytes(x)
      b == Bytes(y)
      m == IF Len(a) < Len(b) THEN Len(a) ELSE Len(b)
      d == {i \in 1..m : a[i] # b[i]}
  IN IF d = {} THEN Len(a) < Len(b)
     ELSE LET i == CHOOSE k \in d : \A l \in d : k <= l IN a[i] < b[i]

\* reflect.Value.String: the text of a string, "<T Value>" for the rest.
ValueString(v) ==
  IF Kind(v) = "string" THEN heap[v.n].mtext
  ELSE <<"<", TypeString(v), " ", "Value", ">">>

\* Go's == on the dynamic values of two interfaces holding the nodes.
RECURSIVE InterfaceEq(_, _)
InterfaceEq(n1, n2) ==
  LET a == heap[n1]
      b == heap[n2]
  IN /\ a.kind = b.kind
     /\ a.ty = b.ty
     /\ CASE a.kind \in {"int", "bool", "float"} ->
               a.val = b.val /\ ~a.nan /\ ~b.nan
          [] a.kind = "string" -> a.mtext = b.mtext
          [] a.kind \in {"array", "struct"} ->
               \A i \in 1..Len(a.elems) : InterfaceEq(a.elems[i], b.elems[i])
          [] OTHER -> a.to = b.to

canSortSimply(kind) ==
  kind \in {"bool", "int", "uint", "float", "string", "uintptr", "array"}

\* valueSortLess: "lt" when a sorts before b, "ge" when it does not, "panic"
\* when Interface is called on a read-only element.
RECURSIVE valueSortLess(_, _)
valueSortLess(a, b) ==
  LET na == heap[a.n]
      nb == heap[b.n]
      tf(x) == IF x THEN "lt" ELSE "ge"
      byString == tf(ValueString(a) # ValueString(b)
                     /\ StringLess(ValueString(a), ValueString(b)))
  IN CASE na.kind = "bool" -> tf(na.val = 0 /\ nb.val = 1)
       [] na.kind \in {"int", "uint", "uintptr"} -> tf(na.val < nb.val)
       [] na.kind = "float" ->
            tf(~na.nan /\ ~nb.nan /\ na.val < nb.val)
       [] na.kind = "string" -> tf(StringLess(na.mtext, nb.mtext))
       [] na.kind = "array" ->
            LET l == Len(na.elems)
                d == {i \in 1..l : ~InterfaceEq(na.elems[i], nb.elems[i])}
            IN IF l > 0 /\ ~CanInterface(Index(a, 1)) THEN "panic"
               ELSE IF d = {} THEN byString
               ELSE LET i == CHOOSE k \in d : \A m \in d : k <= m
                    IN valueSortLess(Index(a, i), Index(b, i))
       [] OTHER -> byString

\* A valuesSorter: the values, and the strings when hasStrings.
valuesSorter(values) ==
  [values |-> values, strings |-> <<>>, hasStrings |-> FALSE,
   panicked |-> FALSE]

\* valuesSorter.Less, with "panic" for a panic of valueSortLess.
Less(s, i, j) ==
  IF ~s.hasStrings THEN valueSortLess(s.values[i], s.values[j])
  ELSE IF StringLess(s.strings[i], s.strings[j]) THEN "lt" ELSE "ge"

SwapSeq(q, i, j) ==
  [k \in 1..Len(q) |-> IF k = i THEN q[j] ELSE IF k = j THEN q[i] ELSE q[k]]

\* valuesSorter.Swap
Swap(s, i, j) ==
  [s EXCEPT !.values = SwapSeq(@, i, j),
            !.strings = IF s.hasStrings THEN SwapSeq(@, i, j) ELSE @]

\* sort.Sort on fewer than twelve elements is an insertion sort: element i
\* is moved down while it is Less than the one before it.
RECURSIVE insertDown(_, _)
insertDown(s, j) ==
  IF j > 1 THEN
    LET r == Less(s, j, j - 1)
    IN IF r = "panic" THEN [s EXCEPT !.panicked = TRUE]
       ELSE IF r = "lt" THEN insertDown(Swap(s, j, j - 1), j - 1)
       ELSE s
  ELSE s

RECURSIVE insertionSort(_, _)
insertionSort(s, i) ==
  IF s.panicked \/ i > Len(s.values) THEN s
  ELSE insertionSort(insertDown(s, i), i + 1)

\* The loop of newValuesSorter that asks every key for its Error or String
\* text: the strings when every key was handled, and the methods invoked.
RECURSIVE methodStrings(_, _, _, _)
methodStrings(cs, values, i, acc) ==
  IF i > Len(values) THEN acc
  ELSE LET hm == handleMethods(cs, values[i])
           inv == IF hm.invoked = "none" THEN acc.invoked
                  ELSE Append(acc.invoked, <<values[i].n, hm.invoked>>)
       IN IF ~hm.handled THEN
            [strings |-> <<>>, ok |-> FALSE, invoked |-> inv]
          ELSE methodStrings(cs, values, i + 1,
                 [strings |-> Append(acc.strings, hm.out), ok |-> TRUE,
                  invoked |-> inv])

\* ---------------------------------------------------------- hex renderer

\* A byte sequence is a sequence of numbers 0..255; what is written is a
\* sequence of characters.

\* The digits of encoding/hex.
hextable ==
  <<"0", "1", "2", "3", "4", "5", "6", "7", "8", "9", "a", "b", "c", "d",
    "e", "f">>

\* The characters of the bytes 32..126, in order (the grave accent, which a
\* string cannot hold, by its code point).
Printable ==
  <<
    " ", "!", "\"", "#", "$", "%", "&", "'", "(", ")", "*", "+",
    ",", "-", ".", "/", "0", "1", "2", "3", "4", "5", "6", "7",
    "8", "9", ":", ";", "<", "=", ">", "?", "@", "A", "B", "C",
    "D", "E", "F", "G", "H", "I", "J", "K", "L", "M", "N", "O",
    "P", "Q", "R", "S", "T", "U", "V", "W", "X", "Y", "Z", "[",
    "\\", "]", "^", "_", "U+0060", "a", "b", "c", "d", "e", "f", "g",
    "h", "i", "j", "k", "l", "m", "n", "o", "p", "q", "r", "s",
    "t", "u", "v", "w", "x", "y", "z", "{", "|", "}", "~"
  >>

\* toChar: the byte as a character of the right column.
toChar(b) == IF b < 32 \/ b > 126 THEN "." ELSE Printable[b - 31]

\* A sink that accepts every write, and a sink that accepts k writes and
\* fails on every later one.
Accepting == [limited |-> FALSE, left |-> 0]
FailingAfter(k) == [limited |-> TRUE, left |-> k]

\* A hexDumper as new(hexDumper) makes it; w is what its sink received, sink
\* the sink, buf the scratch bytes (as numbers), err whether its last call
\* returned an error, and panicked whether it ended by the panic "dumper
\* closed".
new_hexDumper ==
  [w |-> <<>>, sink |-> Accepting, rightChars |-> [i \in 1..18 |-> "\\0"],
   buf |-> [i \in 1..14 |-> 0], used |-> 0, n |-> 0, closed |-> FALSE,
   indent |-> <<>>, panicked |-> FALSE, err |-> FALSE, ret |-> 0]

\* h.w.Write(p): a failing sink takes nothing and returns an error.
sinkWrite(h, p) ==
  IF h.sink.limited /\ h.sink.left = 0 THEN [h EXCEPT !.err = TRUE]
  ELSE [h EXCEPT !.w = @ \o p,
                 !.sink.left = IF h.sink.limited THEN @ - 1 ELSE @]

\* The byte of a hex digit, and the characters of the bytes buf[from..to]
\* (counted from 1), which are printable when they are written.
hexDigit(d) == IF d < 10 THEN 48 + d ELSE 87 + d
bufChars(buf, from, to) == [i \in 1..(to - from + 1) |-> Printable[buf[from + i - 1] - 31]]

\* The start of a line in Write: the indent, then the offset from buf.
hexDumper_LineStart(h) ==
  LET h1 == sinkWrite(h, h.indent)
      b0 == (h.n \div 16777216) % 256
      b1 == (h.n \div 65536) % 256
      b2 == (h.n \div 256) % 256
      b3 == h.n % 256
      buf == <<b0, b1, b2, b3,
               hexDigit(b0 \div 16), hexDigit(b0 % 16),
               hexDigit(b1 \div 16), hexDigit(b1 % 16),
               hexDigit(b2 \div 16), hexDigit(b2 % 16),
               hexDigit(b3 \div 16), hexDigit(b3 % 16), 32, 32>>
  IN IF h.used # 0 THEN h
     ELSE IF h1.err THEN h1
     ELSE sinkWrite([h1 EXCEPT !.buf = buf], bufChars(buf, 5, 14))

\* The two digits of the byte b and what follows them, from buf.
hexDumper_Place(h, b) ==
  LET l == IF h.used = 7 THEN 4 ELSE IF h.used = 15 THEN 5 ELSE 3
      buf == [i \in 1..14 |->
                CASE i = 1 -> hexDigit(b \div 16)
                  [] i = 2 -> hexDigit(b % 16)
                  [] i = 3 -> 32
                  [] i = 4 /\ l >= 4 -> 32
                  [] i = 5 /\ l = 5 -> 124
                  [] OTHER -> h.buf[i]]
  IN sinkWrite([h EXCEPT !.buf = buf], bufChars(buf, 1, l))

\* An end of line that leaves used at 16.
hexDumper_EndLineKeepsUsed(h) ==
  IF h.used = 16
  THEN sinkWrite([h EXCEPT !.rightChars[17] = "|", !.rightChars[18] = "\n"],
                 [h.rightChars EXCEPT ![17] = "|", ![18] = "\n"])
  ELSE h

\* The end of a line in Write: the right column, and used is 0 again unless
\* the sink failed.
hexDumper_EndLine(h) ==
  LET rc == [h.rightChars EXCEPT ![17] = "|", ![18] = "\n"]
      h1 == sinkWrite([h EXCEPT !.rightChars = rc], rc)
  IN IF h.used # 16 THEN h
     ELSE IF h1.err THEN h1
     ELSE [h1 EXCEPT !.used = 0]

\* One turn of the loop of hexDumper.Write, for the byte b; ret counts the
\* bytes taken.  An error of the sink ends the turn where it happens.
hexDumper_WriteByte(h, b) ==
  LET h1 == hexDumper_LineStart(h)
      h2 == hexDumper_Place(h1, b)
  IN IF h1.err THEN h1
     ELSE IF h2.err THEN h2
     ELSE hexDumper_EndLine(
            [h2 EXCEPT !.ret = @ + 1,
                       !.rightChars[h.used + 1] = toChar(b),
                       !.used = @ + 1, !.n = @ + 1])

\* The loop of hexDumper.Write over the bytes of data: g is the dumper after
\* the first byte, t the bytes that follow it.
RECURSIVE hexDumper_WriteLoop(_, _)
hexDumper_WriteLoop(h, data) ==
  IF data = <<>> \/ h.err THEN h
  ELSE The({hexDumper_WriteLoop(g, t) :
              g \in {hexDumper_WriteByte(h, Head(data))}, t \in {Tail(data)}})

\* A Write that does not look at closed.
hexDumper_WriteIgnoresClosed(h, data) ==
  hexDumper_WriteLoop(
    [h EXCEPT !.panicked = FALSE, !.err = FALSE, !.ret = 0], data)

\* hexDumper.Write
hexDumper_Write(h, data) ==
  IF h.closed THEN [h EXCEPT !.panicked = TRUE]
  ELSE hexDumper_WriteLoop(
         [h EXCEPT !.panicked = FALSE, !.err = FALSE, !.ret = 0], data)

\* The loop of hexDumper.Close that fills the line up to its 16th place.
RECURSIVE hexDumper_ClosePad(_)
hexDumper_ClosePad(h) ==
  IF h.used < 16 THEN
    The({IF g.err THEN g ELSE hexDumper_ClosePad([g EXCEPT !.used = @ + 1]) :
           g \in {sinkWrite(h, bufChars(h.buf, 1,
                                        IF h.used = 7 THEN 4
                                        ELSE IF h.used = 15 THEN 5 ELSE 3))}})
  ELSE h

\* A Close that ends the last line where its bytes end.
hexDumper_CloseUnpadded(h) ==
  IF h.closed THEN [h EXCEPT !.panicked = FALSE, !.err = FALSE]
  ELSE IF h.used = 0
  THEN [h EXCEPT !.closed = TRUE, !.panicked = FALSE, !.err = FALSE]
  ELSE LET nBytes == h.used
           rc == [h.rightChars EXCEPT ![nBytes + 1] = "|",
                                      ![nBytes + 2] = "\n"]
       IN [h EXCEPT !.closed = TRUE, !.panicked = FALSE, !.err = FALSE,
                    !.w = @ \o <<" ", "|">> \o SubSeq(rc, 1, nBytes + 2),
                    !.rightChars = rc]

\* hexDumper.Close once closed is set: nothing for an empty line, else the
\* places left are filled and the right column is written.
hexDumper_CloseLine(h) ==
  LET nBytes == h.used
      g == hexDumper_ClosePad(
             [h EXCEPT !.buf = [i \in 1..14 |->
                                  IF i <= 4 THEN 32
                                  ELSE IF i = 5 THEN 124 ELSE h.buf[i]]])
      rc == [h.rightChars EXCEPT ![nBytes + 1] = "|", ![nBytes + 2] = "\n"]
  IN IF h.used = 0 THEN h
     ELSE IF g.err THEN g
     ELSE sinkWrite([g EXCEPT !.rightChars = rc], SubSeq(rc, 1, nBytes + 2))

\* A Close that does not look at closed.
hexDumper_CloseAgain(h) ==
  hexDumper_CloseLine(
    [h EXCEPT !.closed = TRUE, !.panicked = FALSE, !.err = FALSE])

\* hexDumper.Close
hexDumper_Close(h) ==
  IF h.closed THEN [h EXCEPT !.panicked = FALSE, !.err = FALSE]
  ELSE hexDumper_CloseLine(
         [h EXCEPT !.closed = TRUE, !.panicked = FALSE, !.err = FALSE])

\* A set-up that leaves used as the pooled dumper has it.
hexDump_setKeepsUsed(h, sink, indent) ==
  [h EXCEPT !.w = <<>>, !.sink = sink, !.n = 0, !.closed = FALSE,
            !.indent = indent]

\* hexDump up to its call of Write: the pooled dumper is set up for the sink
\* and the indent.
hexDump_set(h, sink, indent) ==
  [h EXCEPT !.w = <<>>, !.sink = sink, !.used = 0, !.n = 0,
            !.closed = FALSE, !.indent = indent]

\* hexDump: the data is written and the dumper closed.
hexDump(h, sink, data, indent) ==
  hexDumper_Close(hexDumper_Write(hexDump_set(h, sink, indent), data))

\* ------------------------------------------------------------- the state

Calls == {"c1", "c2"}

\* The identities of the pooled objects: a call holds at most one dumpState
\* and two cycleInfo, the second for the rendering of a key.
MaxObjs == 4
ObjIds == 1..MaxObjs

MapRoots == {"mArr", "U1", "mSt", "U2", "mInt", "mQ"}

\* The calls of fdump: every root with the default configuration, two
\* lists of two arguments, the mappings with sorted keys, the nested and the
\* method-bearing roots with the options that concern them.
FdumpCalls ==
  {[a |-> <<r>>, cs |-> Config] : r \in Roots \ {"mArr", "U1", "mSt", "U2"}}
    \cup {[a |-> l, cs |-> Config] : l \in {<<"pX", "pX">>, <<NIL, "pNil">>}}
    \cup {[a |-> <<r>>, cs |-> SortCfg] : r \in MapRoots}
    \cup {[a |-> <<r>>, cs |-> SpewCfg] : r \in {"mSt", "U2", "mQ"}}
    \cup {[a |-> <<r>>, cs |-> DepthCfg] : r \in {"N1", "T3", "U1", "mInt", "slQ"}}
    \cup {[a |-> <<"mQ">>, cs |-> [SpewCfg EXCEPT !.DisableMethods = TRUE]],
          [a |-> <<"slQ">>, cs |-> [Config EXCEPT !.ContinueOnMethod = TRUE]]}

\* The calls of Format: a value, the configuration, the flags and the verb.
FormatCall(value, cs, sharp, plus, verb) ==
  [value |-> value, cs |-> cs, sharp |-> sharp, plus |-> plus, verb |-> verb]
FormatCalls ==
  {FormatCall(r, Config, FALSE, FALSE, "v") :
     r \in {"pS1", "pI0", "T3", "mInt", "slQ", "pNil", NIL}}
    \cup {FormatCall(r, SortCfg, FALSE, FALSE, "v") : r \in {"mSt", "U1"}}
    \cup {FormatCall(r, DepthCfg, FALSE, FALSE, "v") : r \in {"N1", "T3", "U1"}}
    \cup {FormatCall("pS2", Config, FALSE, TRUE, "v"),
          FormatCall("T3", Config, TRUE, FALSE, "v"),
          FormatCall("pNil", Config, TRUE, TRUE, "v"),
          FormatCall(NIL, Config, TRUE, FALSE, "v"),
          FormatCall("mSt", SpewCfg, FALSE, FALSE, "v"),
          FormatCall("i1", Config, FALSE, FALSE, "d")}

\* The calls of the behaviours where a dump is repeated: the calls made
\* first, which leave the pools in various states, and the dumps repeated.
FdumpCallsFirst ==
  {[a |-> <<"U1">>, cs |-> SortCfg], [a |-> <<"T3">>, cs |-> Config],
   [a |-> <<"mK1">>, cs |-> SpewCfg]}
FormatCallsFirst ==
  {FormatCall("pS1", Config, FALSE, FALSE, "v"),
   FormatCall("slA", Config, FALSE, FALSE, "v"),
   FormatCall("mInt", Config, FALSE, FALSE, "v")}
FdumpCallsRepeated ==
  {[a |-> <<"T5">>, cs |-> Config], [a |-> <<"mInt">>, cs |-> Config],
   [a |-> <<"mQ">>, cs |-> SortCfg], [a |-> <<"N1">>, cs |-> DepthCfg]}

\* The calls of the behaviours with two calls in progress at once.
FdumpCallsConc ==
  {[a |-> <<"slA">>, cs |-> Config], [a |-> <<"mK1">>, cs |-> SpewCfg],
   [a |-> <<"U1">>, cs |-> SortCfg]}
FormatCallsConc ==
  {FormatCall("slA", Config, FALSE, FALSE, "v"),
   FormatCall("mInt", Config, FALSE, FALSE, "v")}

\* The calls of the behaviours with one call: values with methods, alone,
\* behind a pointer and boxed, mappings with keys of every sortable shape and
\* with keys that have methods, and the nil and the empty containers.
FdumpCallsSingle ==
  {[a |-> <<r>>, cs |-> Config] :
     r \in {"e1", "slQ", "pQ2", "slI", "n3", "sM", "R1", "slNil", "slE",
            "mNil", "mE", "pNil"}}
    \cup {[a |-> <<r>>, cs |-> ContCfg] : r \in {"e1", "slQ", "n3", "pQ2"}}
    \cup {[a |-> <<r>>, cs |-> NoMethodsCfg] : r \in {"e1", "slQ"}}
    \cup {[a |-> <<r>>, cs |-> SortCfg] :
            r \in {"mW", "mQ", "mB", "mF", "mFN", "mS", "mInt", "mArr", "U1"}}
    \cup {[a |-> <<"mW">>, cs |-> cs] :
            cs \in {SpewCfg, [SortCfg EXCEPT !.ContinueOnMethod = TRUE],
                    [SpewCfg EXCEPT !.ContinueOnMethod = TRUE],
                    [SortCfg EXCEPT !.DisableMethods = TRUE],
                    [SpewCfg EXCEPT !.DisableMethods = TRUE]}}
    \cup {[a |-> <<"pMW">>, cs |-> cs] :
            cs \in {SpewCfg, [SpewCfg EXCEPT !.DisableMethods = TRUE]}}
FormatCallsSingle ==
  {FormatCall(r, Config, sharp, FALSE, "v") :
     r \in {"slNil", "slE", "mNil", "mE"}, sharp \in BOOLEAN}
    \cup {FormatCall(r, cs, FALSE, FALSE, "v") :
            r \in {"e1", "slQ", "pQ2", "slI", "R1"}, cs \in {Config, ContCfg}}
    \cup {FormatCall(r, cs, FALSE, FALSE, "v") :
            r \in {"mW", "mFN", "mS"},
            cs \in {SortCfg, [SortCfg EXCEPT !.ContinueOnMethod = TRUE]}}
    \cup {FormatCall("mW", [SpewCfg EXCEPT !.DisableMethods = TRUE],
                     FALSE, FALSE, "v"),
          FormatCall("pMW", [SpewCfg EXCEPT !.DisableMethods = TRUE],
                     FALSE, FALSE, "v"),
          FormatCall("T6", Config, TRUE, FALSE, "v"),
          FormatCall("T4", Config, TRUE, FALSE, "v")}

VARIABLES
  pc,              \* per call: "idle", "run", "done" or "panicked"
  call,            \* per call: the function called and its arguments
  stack,           \* per call: the frames of the functions in progress
  ctx,             \* per call: the dumpState or formatState in use, innermost last
  res,             \* per call: what the finished call wrote
  hist,            \* per call: what the call did (orders of keys, methods, pools)
  dumpStatePool,   \* the dumpState objects: free, held, or pooled as left
  cycleInfoPool,   \* the cycleInfo objects: free, held, or pooled as left
  formattersPool,  \* the slices of formatState: free, held, or pooled as left
  hd,              \* a hexDumper and what it wrote to its sink
  bufferPool       \* the pooled buffer and the last call that used it

vars ==
  <<heap, pc, call, stack, ctx, res, hist, dumpStatePool, cycleInfoPool,
    formattersPool, hd, bufferPool>>

NilCi == cycleInfo_Reset(0)

\* A frame: the function, its value argument, its position i, a flag, and
\* for the frames of printMap and the sorter the keys and the sorter; chain
\* remembers, for the frame of a pointer being rendered, the addresses its
\* unwrap pass recorded.
Fr(op, v, i) ==
  [op |-> op, v |-> v, i |-> i, b |-> FALSE, keys |-> <<>>,
   s |-> valuesSorter(<<>>), chain |-> <<>>]

NoCall == [fn |-> "none", a |-> <<>>, cs |-> Config, flags |-> <<>>]
NoRes == [status |-> "none", out |-> <<>>]
NoHist ==
  [perms |-> <<>>, invoked |-> <<>>, visited |-> <<>>, hm |-> <<>>,
   got |-> <<>>, found |-> <<>>, put |-> <<>>]

FreeDs == [st |-> "free", depth |-> 0, ignoreNextType |-> FALSE,
           ignoreNextIndent |-> FALSE]
HeldDs == [FreeDs EXCEPT !.st = "held"]
FreeCi == [st |-> "free", pointers |-> EmptyMap, pointerChain |-> <<>>,
           nilFound |-> FALSE, cycleFound |-> FALSE, indirects |-> 0]
HeldCi == [FreeCi EXCEPT !.st = "held"]

\* A slice of formatState that was not made yet.
FreeFs == [st |-> "free", fs |-> <<>>]

\* The hexDumper h before any call on it: op is the last call made, data
\* its argument, pat the bytes the caller writes, uses the calls of hexDump
\* it served, found the dumper as the last call found it (without what its
\* sink had received), acc the bytes its calls of Write took since it was
\* set up.
NoHexCall ==
  [h |-> new_hexDumper, op |-> "none", data |-> <<>>, pat |-> 1, uses |-> 0,
   found |-> new_hexDumper, acc |-> 0]

\* The pooled buffer before any call used it: op is the last call, p the
\* address printHexPtr was given, out, low and panicked its result, found
\* the buffer as it took it from the pool, uses the calls made.
NoBufferCall ==
  [b |-> new_buffer, op |-> "none", p |-> <<0, 0, 0, 0>>, out |-> <<>>,
   low |-> 0, panicked |-> FALSE, found |-> new_buffer, uses |-> 0]

Init ==
  /\ heap = Heap
  /\ pc = [c \in Calls |-> "idle"]
  /\ call = [c \in Calls |-> NoCall]
  /\ stack = [c \in Calls |-> <<>>]
  /\ ctx = [c \in Calls |-> <<>>]
  /\ res = [c \in Calls |-> NoRes]
  /\ hist = [c \in Calls |-> NoHist]
  /\ dumpStatePool = [i \in ObjIds |-> FreeDs]
  /\ cycleInfoPool = [i \in ObjIds |-> FreeCi]
  /\ formattersPool = [i \in ObjIds |-> FreeFs]
  /\ hd = NoHexCall
  /\ bufferPool = NoBufferCall

\* ---------------------------------------------------------------- pools

\* A Get that leaves the object it hands out in the pool.
PoolGetLeavesObject(pool) ==
  LET free == {i \in ObjIds : pool[i].st = "free"}
  IN {i \in ObjIds : pool[i].st \in {"pooled", "held"}}
       \cup (IF free = {} THEN {}
             ELSE {CHOOSE i \in free : \A j \in free : i <= j})

\* sync.Pool.Get: one of the pooled objects, or a new one.
PoolGet(pool) ==
  LET free == {i \in ObjIds : pool[i].st = "free"}
  IN {i \in ObjIds : pool[i].st = "pooled"}
       \cup (IF free = {} THEN {}
             ELSE {CHOOSE i \in free : \A j \in free : i <= j})

\* cycleInfoPut: the object goes to the pool as it is.
cycleInfoPut(pool, ci) ==
  IF ci.id = 0 THEN pool
  ELSE [pool EXCEPT ![ci.id] =
          [st |-> "pooled", pointers |-> ci.pointers,
           pointerChain |-> ci.pointerChain, nilFound |-> ci.nilFound,
           cycleFound |-> ci.cycleFound, indirects |-> ci.indirects]]

\* dumpStatePut, on the dumpState pool: d.ci is nil by then.
dumpStatePut(pool, P) ==
  [pool EXCEPT ![P.id] =
     [st |-> "pooled", depth |-> P.depth, ignoreNextType |-> P.ignoreNextType,
      ignoreNextIndent |-> P.ignoreNextIndent]]

\* A Reset that leaves the depth as the dumpState taken from the pool has it.
dumpState_ResetKeepsDepth(did, cid, cs) ==
  [mode |-> "dump", id |-> did, depth |-> dumpStatePool[did].depth,
   ignoreNextType |-> FALSE, ignoreNextIndent |-> FALSE,
   ci |-> cycleInfo_Reset(cid), cs |-> cs, out |-> <<>>, sharp |-> FALSE,
   plus |-> FALSE, value |-> NIL, verb |-> "v"]

\* dumpState.Reset and dumpStateGet: the dumpState did with the cycleInfo
\* cid, for the configuration cs.
dumpState_Reset(did, cid, cs) ==
  [mode |-> "dump", id |-> did, depth |-> 0, ignoreNextType |-> FALSE,
   ignoreNextIndent |-> FALSE, ci |-> cycleInfo_Reset(cid), cs |-> cs,
   out |-> <<>>, sharp |-> FALSE, plus |-> FALSE, value |-> NIL,
   verb |-> "v"]

\* formatState.Reset: a formatState for the value, with the flags and the
\* verb of the fmt.State it is later called with.
formatState_Reset(cs, value, sharp, plus, verb) ==
  [mode |-> "format", id |-> 0, depth |-> 0, ignoreNextType |-> FALSE,
   ignoreNextIndent |-> FALSE, ci |-> NilCi, cs |-> cs,
   out |-> <<>>, sharp |-> sharp, plus |-> plus, value |-> value,
   verb |-> verb]

\* The fields of a formatState that outlive a call of Format: the slices of
\* the formatters pool hold them.  new(formatState) has no configuration and
\* no value.
new_formatState ==
  [depth |-> 0, ignoreNextType |-> FALSE, value |-> NIL, cs |-> NIL]

\* A formattersGet that hands out the formatState as the pool has them.
formattersGetNoReset(pool, cs, args) ==
  {[pv |-> i, found |-> pool[i],
    pool |-> [pool EXCEPT ![i] =
                [st |-> "held",
                 fs |-> IF pool[i].st = "pooled" THEN pool[i].fs
                        ELSE [k \in 1..Len(args) |-> new_formatState]]]] :
     i \in PoolGet(pool)}

\* formattersGet: for every object i that Get may return, the slice handed
\* out (pv), what Get returned (found) and the pool after the call.  A pooled
\* slice that is too short goes back to the pool and a new one is made; the
\* first len(args) formatState of the slice are Reset.
formattersGet(pool, cs, args) ==
  LET free == {j \in ObjIds : pool[j].st = "free"}
      make == CHOOSE j \in free : \A l \in free : j <= l
      short(i) == pool[i].st = "pooled" /\ Len(pool[i].fs) < Len(args)
      pv(i) == IF short(i) THEN make ELSE i
      old(i) == IF pool[pv(i)].st = "pooled" THEN pool[pv(i)].fs
                ELSE [k \in 1..Len(args) |-> new_formatState]
  IN {[pv |-> pv(i), found |-> pool[i],
       pool |-> [pool EXCEPT ![pv(i)] =
                   [st |-> "held",
                    fs |-> [k \in DOMAIN old(i) |->
                              IF k <= Len(args)
                              THEN [depth |-> 0, ignoreNextType |-> FALSE,
                                    value |-> args[k], cs |-> cs]
                              ELSE old(i)[k]]]]] :
        i \in {j \in PoolGet(pool) : short(j) => free # {}}}

\* formattersPut: the slice goes to the pool as it is.
formattersPut(pool, pv) == [pool EXCEPT ![pv].st = "pooled"]

\* The formatState k of the slice pv as Format is called on it by fmt.Sprint:
\* the verb is v and no flag is set.
formatState_At(pool, pv, k) ==
  [formatState_Reset(pool[pv].fs[k].cs, pool[pv].fs[k].value, FALSE, FALSE,
                     "v")
     EXCEPT !.id = k, !.depth = pool[pv].fs[k].depth,
            !.ignoreNextType = pool[pv].fs[k].ignoreNextType]

\* The slice pv with its formatState k as the call of Format left it.
formatState_Left(pool, pv, k, P) ==
  [pool EXCEPT ![pv].fs[k].depth = P.depth,
               ![pv].fs[k].ignoreNextType = P.ignoreNextType]

\* What a call of Sprint works on: the slice pv and the text so far.
sprintState(pv, cs) ==
  [formatState_Reset(cs, NIL, FALSE, FALSE, "v")
     EXCEPT !.mode = "sprint", !.id = pv]

\* ------------------------------------------------------- frame helpers

Top(c) == stack[c][Len(stack[c])]
Cur(c) == ctx[c][Len(ctx[c])]
At(c, op) == pc[c] = "run" /\ stack[c] # <<>> /\ Top(c).op = op
Running(c, op, mode) == At(c, op) /\ Cur(c).mode = mode

\* The stack with its top frame replaced by the frames fs (the last on top).
Replace(c, fs) == SubSeq(stack[c], 1, Len(stack[c]) - 1) \o fs
SetCur(c, P) == [ctx[c] EXCEPT ![Len(ctx[c])] = P]

Wr(P, toks) == [P EXCEPT !.out = @ \o toks]

\* The frames change to fs, the state in use to P and the record of the call
\* to h; nothing else changes.
GoH(c, fs, P, h) ==
  /\ stack' = [stack EXCEPT ![c] = Replace(c, fs)]
  /\ ctx' = [ctx EXCEPT ![c] = SetCur(c, P)]
  /\ hist' = [hist EXCEPT ![c] = h]
  /\ UNCHANGED <<pc, call, res, dumpStatePool, cycleInfoPool>>

Go(c, fs, P) == GoH(c, fs, P, hist[c])

\* A panic: the functions in progress are abandoned, the deferred calls run.
Panic(c) ==
  /\ stack' = [stack EXCEPT ![c] = <<Fr("panic", NoV, 0)>>]
  /\ UNCHANGED <<pc, call, ctx, res, hist, dumpStatePool, cycleInfoPool>>

\* ------------------------------------------------------------ dispatcher

\* printString of the dumpState (quoted) and of the formatState (as it is).
printString(P, v) ==
  IF P.mode = "dump" THEN Wr(P, <<"\"">> \o heap[v.n].mtext \o <<"\"">>)
  ELSE Wr(P, heap[v.n].mtext)

\* A guard that leaves out the records.
methodsFirstButStructs(cs, kind) ==
  ~cs.DisableMethods /\ kind \notin {"invalid", "iface", "struct"}

\* The guard of printValue's call of handleMethods.
methodsFirst(cs, kind) ==
  ~cs.DisableMethods /\ kind \notin {"invalid", "iface"}

\* printValue: the state after it, the frame of printArray, printMap or
\* printStruct when it calls one, the method it invoked, and what its call
\* of handleMethods did when it made one: the value, ContinueOnMethod, the
\* text written and the result, and whether the switch on the kind ran
\* after it (raw).
printValue(P, v) ==
  LET kind == Kind(v)
      nd == heap[v.n]
      first == methodsFirst(P.cs, kind)
      hm == IF first THEN handleMethods(P.cs, v)
            ELSE [out |-> <<>>, handled |-> FALSE, invoked |-> "none"]
      P1 == Wr(P, hm.out)
      called(raw) ==
        IF first
        THEN <<[n |-> v.n, com |-> P.cs.ContinueOnMethod, out |-> hm.out,
                handled |-> hm.handled, invoked |-> hm.invoked,
                raw |-> raw]>>
        ELSE <<>>
      done(Q) == [P |-> Q, push |-> <<>>, invoked |-> hm.invoked,
                  hm |-> called(Q # P1)]
      enter(op) ==
        [P |-> P1, push |-> <<Fr(op, v, 0)>>, invoked |-> hm.invoked,
         hm |-> called(TRUE)]
  IN IF hm.handled THEN done(P1)
     ELSE CASE kind = "bool" ->
                 done(Wr(P1, IF nd.val = 1 THEN <<"true">> ELSE <<"false">>))
            [] kind \in {"int", "uint"} -> done(Wr(P1, printInt(nd.val)))
            [] kind = "float" ->
                 done(Wr(P1, IF nd.nan THEN <<"NaN">> ELSE printInt(nd.val)))
            [] kind = "slice" ->
                 IF IsNil(v) THEN done(Wr(P1, <<nilAngleBytes>>))
                 ELSE enter("printArray")
            [] kind = "array" -> enter("printArray")
            [] kind = "string" -> done(printString(P1, v))
            [] kind = "iface" ->
                 done(IF IsNil(v) THEN Wr(P1, <<nilAngleBytes>>) ELSE P1)
            [] kind = "map" ->
                 IF IsNil(v) THEN done(Wr(P1, <<nilAngleBytes>>))
                 ELSE enter("printMap")
            [] kind = "struct" -> enter("printStruct")
            [] kind = "uintptr" -> done(Wr(P1, printHexPtr(nd.to)))
            [] OTHER -> done(P1)

\* The record of a call after the value v was handed to dump or format, and
\* after a method was invoked on it.
Visit(h, v) == [h EXCEPT !.visited = Append(@, v.n)]
Called(h, hm) == [h EXCEPT !.hm = @ \o hm]
Invoke(h, v, m) ==
  IF m = "none" THEN h ELSE [h EXCEPT !.invoked = Append(@, <<v.n, m>>)]

\* A test of the depth that lets one more level through.
MaxDepthReachedLate(P) ==
  (P.cs.MaxDepth # 0) /\ (P.depth > P.cs.MaxDepth + 1)

\* The test of printArray, printMap and printStruct after d.depth++.
MaxDepthReached(P) == (P.cs.MaxDepth # 0) /\ (P.depth > P.cs.MaxDepth)

\* derefPtr, for dumpPtr and formatPtr: the frame below is the caller's.  Step
\* 0 is the code before the loop, every later step is one turn of the loop;
\* when the loop ends, the caller goes on with the value reached.
derefPtr(c) ==
  /\ At(c, "derefPtr")
  /\ UNCHANGED <<heap, hd, bufferPool, formattersPool>>
  /\ LET f == Top(c)
         P == Cur(c)
         n == Len(stack[c])
     IN IF f.i = 0 THEN
          Go(c, <<[f EXCEPT !.i = 1]>>,
             [P EXCEPT !.ci = derefPtrBegin(P.ci, P.depth)])
        ELSE
          /\ Len(P.ci.pointerChain) < MaxChain
          /\ LET r == derefPtrStep(P.ci, f.v, P.depth)
                 P1 == [P EXCEPT !.ci = r.ci]
             IN IF r.more THEN Go(c, <<[f EXCEPT !.v = r.ve]>>, P1)
                ELSE /\ stack' = [stack EXCEPT ![c] =
                           SubSeq(stack[c], 1, n - 2)
                             \o <<[stack[c][n - 1] EXCEPT
                                     !.v = r.ve, !.i = 1,
                                     !.chain = r.ci.pointerChain]>>]
                     /\ ctx' = [ctx EXCEPT ![c] = SetCur(c, P1)]
                     /\ UNCHANGED <<pc, call, res, hist, dumpStatePool,
                                    cycleInfoPool>>

\* ------------------------------------------------------- verbose dumper

\* dumpState.indent
indent(P) ==
  IF P.ignoreNextIndent THEN [P EXCEPT !.ignoreNextIndent = FALSE]
  ELSE Wr(P, [i \in 1..P.depth |-> P.cs.Indent])

dumpState_unpackValue(v) ==
  IF Kind(v) = "iface" /\ ~IsNil(v) THEN Elem(v) ELSE v

Asterisks(n) == [i \in 1..n |-> asteriskBytes]

\* The pointer chain as dumpPtr and formatPtr write it.
RECURSIVE ChainText(_)
ChainText(chain) ==
  IF chain = <<>> THEN <<>>
  ELSE IF Len(chain) = 1 THEN printHexPtr(chain[1])
  ELSE printHexPtr(chain[1]) \o <<pointerChainBytes>> \o ChainText(Tail(chain))

\* dumpState.dumpPtr: step 0 calls derefPtr, step 1 writes the type, the
\* chain and the value reached, step 2 closes the parenthesis.
dumpPtr(c) ==
  /\ Running(c, "dumpPtr", "dump")
  /\ UNCHANGED <<heap, hd, bufferPool, formattersPool>>
  /\ LET f == Top(c)
         P == Cur(c)
     IN CASE f.i = 0 ->
               Go(c, <<f, Fr("derefPtr", f.v, 0)>>, P)
          [] f.i = 1 ->
               LET P1 == Wr(P, <<openParenBytes>> \o Asterisks(P.ci.indirects)
                                 \o <<TypeString(f.v), closeParenBytes>>)
                   P2 == IF ~P.cs.DisablePointerAddresses
                            /\ Len(P.ci.pointerChain) > 0
                         THEN Wr(P1, <<openParenBytes>>
                                       \o ChainText(P.ci.pointerChain)
                                       \o <<closeParenBytes>>)
                         ELSE P1
                   P3 == Wr(P2, <<openParenBytes>>)
               IN IF P.ci.nilFound THEN
                    Go(c, <<>>, Wr(P3, <<nilAngleBytes, closeParenBytes>>))
                  ELSE IF P.ci.cycleFound THEN
                    Go(c, <<>>, Wr(P3, <<circularBytes, closeParenBytes>>))
                  ELSE
                    Go(c, <<[f EXCEPT !.i = 2], Fr("dump", f.v, 0)>>,
                       [P3 EXCEPT !.ignoreNextType = TRUE])
          [] OTHER -> Go(c, <<>>, Wr(P, <<closeParenBytes>>))

\* dumpState.dump, with the printValue it ends in.
dump(c) ==
  /\ Running(c, "dump", "dump")
  /\ UNCHANGED <<heap, hd, bufferPool, formattersPool>>
  /\ LET v == Top(c).v
         P == Cur(c)
         h == Visit(hist[c], v)
     IN IF Kind(v) = "invalid" THEN
          GoH(c, <<>>, Wr(P, <<invalidAngleBytes>>), h)
        ELSE IF Kind(v) = "ptr" THEN
          GoH(c, <<Fr("dumpPtr", v, 0)>>, indent(P), h)
        ELSE
          LET P1 == IF ~P.ignoreNextType
                    THEN Wr(indent(P), <<openParenBytes, TypeString(v),
                                         closeParenBytes, spaceBytes>>)
                    ELSE P
              P2 == [P1 EXCEPT !.ignoreNextType = FALSE]
              valueLen == IF Kind(v) \in {"array", "slice", "map"}
                          THEN ValueLen(v)
                          ELSE IF Kind(v) = "string" THEN Len(heap[v.n].mtext)
                          ELSE 0
              valueCap == IF Kind(v) \in {"array", "slice"}
                          THEN ValueLen(v) ELSE 0
              showCap == ~P.cs.DisableCapacities /\ valueCap # 0
              P3 == IF valueLen # 0 \/ showCap
                    THEN Wr(P2,
                           <<openParenBytes>>
                           \o (IF valueLen # 0
                               THEN <<lenEqualsBytes>> \o printInt(valueLen)
                               ELSE <<>>)
                           \o (IF showCap
                               THEN (IF valueLen # 0 THEN <<spaceBytes>>
                                     ELSE <<>>)
                                    \o <<capEqualsBytes>> \o printInt(valueCap)
                               ELSE <<>>)
                           \o <<closeParenBytes, spaceBytes>>)
                    ELSE P2
              r == printValue(P3, v)
          IN GoH(c, r.push, r.P, Invoke(Called(h, r.hm), v, r.invoked))

\* The end of printArray, printMap and printStruct of the dumpState.
dumpState_close(P) ==
  Wr(indent([P EXCEPT !.depth = @ - 1]), <<closeBraceBytes>>)

\* The depth-exceeded branch of the three.
dumpState_max(P) == dumpState_close(Wr(indent(P), <<maxNewlineBytes>>))

\* What follows entry i of n in a verbose container.
Separator(i, n) ==
  IF i < n THEN <<commaNewlineBytes>> ELSE <<newlineBytes>>

\* dumpState.printArray with dumpSlice: step 0 opens, step i dumps element
\* i after ending the line of element i - 1, the last step closes.
dumpState_printArray(c) ==
  /\ Running(c, "printArray", "dump")
  /\ UNCHANGED <<heap, hd, bufferPool, formattersPool>>
  /\ LET f == Top(c)
         P == Cur(c)
         n == ValueLen(f.v)
     IN IF f.i = 0 THEN
          LET P1 == [Wr(P, <<openBraceNewlineBytes>>) EXCEPT !.depth = @ + 1]
          IN IF MaxDepthReached(P1) THEN Go(c, <<>>, dumpState_max(P1))
             ELSE Go(c, <<[f EXCEPT !.i = 1]>>, P1)
        ELSE
          LET P1 == IF f.i > 1 THEN Wr(P, Separator(f.i - 1, n)) ELSE P
          IN IF f.i <= n THEN
               Go(c, <<[f EXCEPT !.i = @ + 1],
                       Fr("dump", dumpState_unpackValue(Index(f.v, f.i)), 0)>>,
                  P1)
             ELSE Go(c, <<>>, dumpState_close(P1))

\* dumpState.printStruct: step i writes the name of field i and dumps it.
dumpState_printStruct(c) ==
  /\ Running(c, "printStruct", "dump")
  /\ UNCHANGED <<heap, hd, bufferPool, formattersPool>>
  /\ LET f == Top(c)
         P == Cur(c)
         numFields == ValueLen(f.v)
     IN IF f.i = 0 THEN
          LET P1 == [Wr(P, <<openBraceNewlineBytes>>) EXCEPT !.depth = @ + 1]
          IN IF MaxDepthReached(P1) THEN Go(c, <<>>, dumpState_max(P1))
             ELSE Go(c, <<[f EXCEPT !.i = 1]>>, P1)
        ELSE
          LET P1 == IF f.i > 1 THEN Wr(P, Separator(f.i - 1, numFields))
                    ELSE P
          IN IF f.i <= numFields THEN
               Go(c, <<[f EXCEPT !.i = @ + 1],
                       Fr("dump", dumpState_unpackValue(Field(f.v, f.i)), 0)>>,
                  [Wr(indent(P1), <<heap[f.v.n].names[f.i], colonSpaceBytes>>)
                     EXCEPT !.ignoreNextIndent = TRUE])
             ELSE Go(c, <<>>, dumpState_close(P1))

\* dumpState.printMap: step 0 opens, takes the keys in the order MapKeys
\* returns them and has them sorted; step 2k-1 dumps key k, step 2k its value.
dumpState_printMap(c) ==
  /\ Running(c, "printMap", "dump")
  /\ UNCHANGED <<heap, hd, bufferPool, formattersPool>>
  /\ LET f == Top(c)
         P == Cur(c)
         numEntries == ValueLen(f.v)
         k == (f.i + 1) \div 2
     IN IF f.i = 0 THEN
          LET P1 == [Wr(P, <<openBraceNewlineBytes>>) EXCEPT !.depth = @ + 1]
          IN IF MaxDepthReached(P1) THEN Go(c, <<>>, dumpState_max(P1))
             ELSE \E perm \in Perms(numEntries) :
                    LET keys == [i \in 1..numEntries |-> MapKey(f.v, perm[i])]
                        g == [f EXCEPT !.i = 1, !.keys = keys]
                        h == [hist[c] EXCEPT !.perms = Append(@, perm)]
                    IN IF P.cs.SortKeys
                       THEN GoH(c, <<g, [Fr("newValuesSorter", f.v, 0)
                                           EXCEPT !.keys = keys]>>, P1, h)
                       ELSE GoH(c, <<g>>, P1, h)
        ELSE IF f.i > 2 * numEntries THEN
          Go(c, <<>>,
             dumpState_close(IF numEntries > 0
                             THEN Wr(P, <<newlineBytes>>) ELSE P))
        ELSE IF f.i % 2 = 1 THEN
          Go(c, <<[f EXCEPT !.i = @ + 1],
                  Fr("dump", dumpState_unpackValue(f.keys[k]), 0)>>,
             IF k > 1 THEN Wr(P, <<commaNewlineBytes>>) ELSE P)
        ELSE
          Go(c, <<[f EXCEPT !.i = @ + 1],
                  Fr("dump",
                     dumpState_unpackValue(MapIndex(f.v, f.keys[k])), 0)>>,
             [Wr(P, <<colonSpaceBytes>>) EXCEPT !.ignoreNextIndent = TRUE])

\* ---------------------------------------------------- compact formatter

\* formatState.unpackValue: the value, and the formatState after it.
formatState_unpackValue(P, v) ==
  IF Kind(v) = "iface"
  THEN [P |-> [P EXCEPT !.ignoreNextType = FALSE],
        v |-> IF ~IsNil(v) THEN Elem(v) ELSE v]
  ELSE [P |-> P, v |-> v]

\* strings.Count(t, "*") for the types of the values.
CountAsterisks(ty) ==
  IF ty \in {"*S1", "*S2", "*int", "*interface {}", "[]*int", "[][]*int"}
  THEN 1 ELSE 0

\* formatState.formatPtr: step 0 returns for a nil pointer or calls
\* derefPtr, step 1 writes the type or the indirection level, the chain and
\* the value reached, step 2 is the return from the format of that value.
formatPtr(c) ==
  /\ Running(c, "formatPtr", "format")
  /\ UNCHANGED <<heap, hd, bufferPool, formattersPool>>
  /\ LET f == Top(c)
         P == Cur(c)
         showTypes == P.sharp
     IN IF f.i = 0 THEN
          IF IsNil(f.v) /\ (~showTypes \/ P.ignoreNextType)
          THEN Go(c, <<>>, Wr(P, <<nilAngleBytes>>))
          ELSE Go(c, <<f, Fr("derefPtr", f.v, 0)>>, P)
        ELSE IF f.i = 2 THEN Go(c, <<>>, P)
        ELSE
          LET P1 == IF showTypes /\ ~P.ignoreNextType THEN
                      Wr(P, <<openParenBytes>> \o Asterisks(P.ci.indirects)
                              \o <<TypeString(f.v), closeParenBytes>>)
                    ELSE
                      LET Q == IF P.ci.nilFound \/ P.ci.cycleFound
                               THEN [P EXCEPT !.ci.indirects =
                                       @ + CountAsterisks(TypeString(f.v))]
                               ELSE P
                      IN Wr(Q, <<openAngleBytes>> \o Asterisks(Q.ci.indirects)
                                 \o <<closeAngleBytes>>)
              P2 == IF P.plus /\ Len(P.ci.pointerChain) > 0
                    THEN Wr(P1, <<openParenBytes>>
                                  \o ChainText(P.ci.pointerChain)
                                  \o <<closeParenBytes>>)
                    ELSE P1
          IN IF P.ci.nilFound THEN Go(c, <<>>, Wr(P2, <<nilAngleBytes>>))
             ELSE IF P.ci.cycleFound THEN
               Go(c, <<>>, Wr(P2, <<circularShortBytes>>))
             ELSE Go(c, <<[f EXCEPT !.i = 2], Fr("format", f.v, 0)>>,
                     [P2 EXCEPT !.ignoreNextType = TRUE])

\* formatState.format, with the printValue it ends in.
format(c) ==
  /\ Running(c, "format", "format")
  /\ UNCHANGED <<heap, hd, bufferPool, formattersPool>>
  /\ LET v == Top(c).v
         P == Cur(c)
         h == Visit(hist[c], v)
     IN IF Kind(v) = "invalid" THEN
          GoH(c, <<>>, Wr(P, <<invalidAngleBytes>>), h)
        ELSE IF Kind(v) = "ptr" THEN GoH(c, <<Fr("formatPtr", v, 0)>>, P, h)
        ELSE
          LET P1 == IF ~P.ignoreNextType /\ P.sharp
                    THEN Wr(P, <<openParenBytes, TypeString(v),
                                 closeParenBytes>>)
                    ELSE P
              r == printValue([P1 EXCEPT !.ignoreNextType = FALSE], v)
          IN GoH(c, r.push, r.P, Invoke(Called(h, r.hm), v, r.invoked))

\* An end of the three that leaves the depth as it is.
formatState_closeKeepsDepth(P, closing) == Wr(P, <<closing>>)

\* The end of printArray, printMap and printStruct of the formatState.
formatState_close(P, closing) ==
  Wr([P EXCEPT !.depth = @ - 1], <<closing>>)

\* formatState.printArray: step 0 opens, step i formats element i.
formatState_printArray(c) ==
  /\ Running(c, "printArray", "format")
  /\ UNCHANGED <<heap, hd, bufferPool, formattersPool>>
  /\ LET f == Top(c)
         P == Cur(c)
         numEntries == ValueLen(f.v)
     IN IF f.i = 0 THEN
          LET P1 == [Wr(P, <<openBracketBytes>>) EXCEPT !.depth = @ + 1]
          IN IF MaxDepthReached(P1)
             THEN Go(c, <<>>, formatState_close(Wr(P1, <<maxShortBytes>>),
                                                closeBracketBytes))
             ELSE Go(c, <<[f EXCEPT !.i = 1]>>, P1)
        ELSE IF f.i <= numEntries THEN
          LET P1 == IF f.i > 1 THEN Wr(P, <<spaceBytes>>) ELSE P
              u == formatState_unpackValue(
                     [P1 EXCEPT !.ignoreNextType = TRUE], Index(f.v, f.i))
          IN Go(c, <<[f EXCEPT !.i = @ + 1], Fr("format", u.v, 0)>>, u.P)
        ELSE Go(c, <<>>, formatState_close(P, closeBracketBytes))

\* formatState.printStruct: step i writes the name of field i when the
\* flags ask for it, and formats the field.
formatState_printStruct(c) ==
  /\ Running(c, "printStruct", "format")
  /\ UNCHANGED <<heap, hd, bufferPool, formattersPool>>
  /\ LET f == Top(c)
         P == Cur(c)
         numFields == ValueLen(f.v)
     IN IF f.i = 0 THEN
          LET P1 == [Wr(P, <<openBraceBytes>>) EXCEPT !.depth = @ + 1]
          IN IF MaxDepthReached(P1)
             THEN Go(c, <<>>, formatState_close(Wr(P1, <<maxShortBytes>>),
                                                closeBraceBytes))
             ELSE Go(c, <<[f EXCEPT !.i = 1]>>, P1)
        ELSE IF f.i <= numFields THEN
          LET P1 == IF f.i > 1 THEN Wr(P, <<spaceBytes>>) ELSE P
              P2 == IF P.plus \/ P.sharp
                    THEN Wr(P1, <<heap[f.v.n].names[f.i], colonBytes>>)
                    ELSE P1
              u == formatState_unpackValue(P2, Field(f.v, f.i))
          IN Go(c, <<[f EXCEPT !.i = @ + 1], Fr("format", u.v, 0)>>, u.P)
        ELSE Go(c, <<>>, formatState_close(P, closeBraceBytes))

\* formatState.printMap: step 0 opens, takes the keys in the order MapKeys
\* returns them and has them sorted; step 2k-1 formats key k, step 2k its
\* value.
formatState_printMap(c) ==
  /\ Running(c, "printMap", "format")
  /\ UNCHANGED <<heap, hd, bufferPool, formattersPool>>
  /\ LET f == Top(c)
         P == Cur(c)
         numEntries == ValueLen(f.v)
         k == (f.i + 1) \div 2
     IN IF f.i = 0 THEN
          LET P1 == [Wr(P, <<openMapBytes>>) EXCEPT !.depth = @ + 1]
          IN IF MaxDepthReached(P1)
             THEN Go(c, <<>>, formatState_close(Wr(P1, <<maxShortBytes>>),
                                                closeMapBytes))
             ELSE \E perm \in Perms(numEntries) :
                    LET keys == [i \in 1..numEntries |-> MapKey(f.v, perm[i])]
                        g == [f EXCEPT !.i = 1, !.keys = keys]
                        h == [hist[c] EXCEPT !.perms = Append(@, perm)]
                    IN IF P.cs.SortKeys
                       THEN GoH(c, <<g, [Fr("newValuesSorter", f.v, 0)
                                           EXCEPT !.keys = keys]>>, P1, h)
                       ELSE GoH(c, <<g>>, P1, h)
        ELSE IF f.i > 2 * numEntries THEN
          Go(c, <<>>, formatState_close(P, closeMapBytes))
        ELSE IF f.i % 2 = 1 THEN
          LET P1 == IF k > 1 THEN Wr(P, <<spaceBytes>>) ELSE P
              u == formatState_unpackValue(
                     [P1 EXCEPT !.ignoreNextType = TRUE], f.keys[k])
          IN Go(c, <<[f EXCEPT !.i = @ + 1], Fr("format", u.v, 0)>>, u.P)
        ELSE
          LET u == formatState_unpackValue(
                     [Wr(P, <<colonBytes>>) EXCEPT !.ignoreNextType = TRUE],
                     MapIndex(f.v, f.keys[k]))
          IN Go(c, <<[f EXCEPT !.i = @ + 1], Fr("format", u.v, 0)>>, u.P)

\* ------------------------------------------------- sorting in the renderers

\* The caller's frame receives the sorted keys and goes on.
ReturnKeys(c, keys) ==
  LET n == Len(stack[c])
  IN stack' = [stack EXCEPT ![c] =
                 SubSeq(stack[c], 1, n - 2)
                   \o <<[stack[c][n - 1] EXCEPT !.keys = keys]>>]

\* sortValues up to its call of sort.Sort, that is newValuesSorter.  Step 0
\* decides how the keys are compared and asks the keys for their method
\* texts; step 1, with SpewKeys, renders key after key with Sprintf("%#v"),
\* each in a formatState of its own with the default configuration.
newValuesSorter(c) ==
  /\ At(c, "newValuesSorter")
  /\ UNCHANGED <<heap, hd, bufferPool, formattersPool>>
  /\ LET f == Top(c)
         P == Cur(c)
         cs == P.cs
         n == Len(f.keys)
         vs == valuesSorter(f.keys)
         j == Len(f.s.strings) + 1
     IN IF f.i = 0 THEN
          IF n = 0 THEN
            /\ ReturnKeys(c, f.keys)
            /\ UNCHANGED <<pc, call, ctx, res, hist, dumpStatePool,
                           cycleInfoPool>>
          ELSE IF canSortSimply(Kind(f.keys[1])) THEN
            Go(c, <<[f EXCEPT !.op = "sortValues", !.s = vs]>>, P)
          ELSE
            LET ms == IF ~cs.DisableMethods
                      THEN methodStrings(cs, f.keys, 1,
                             [strings |-> <<>>, ok |-> TRUE,
                              invoked |-> <<>>])
                      ELSE [strings |-> <<>>, ok |-> FALSE, invoked |-> <<>>]
                h == [hist[c] EXCEPT !.invoked = @ \o ms.invoked]
            IN IF ~ms.ok /\ cs.SpewKeys
               THEN GoH(c, <<[f EXCEPT !.i = 1, !.s = vs]>>, P, h)
               ELSE GoH(c, <<[f EXCEPT !.op = "sortValues",
                                       !.s = [vs EXCEPT
                                                !.strings = ms.strings,
                                                !.hasStrings = ms.ok]]>>,
                        P, h)
        ELSE IF f.b THEN
          \* Sprintf has returned: its text is the string of key j
          /\ stack' = [stack EXCEPT ![c] =
               Replace(c, <<[f EXCEPT !.b = FALSE,
                                      !.s.strings = Append(@, P.out)]>>)]
          /\ ctx' = [ctx EXCEPT ![c] = SubSeq(@, 1, Len(@) - 1)]
          /\ UNCHANGED <<pc, call, res, hist, dumpStatePool, cycleInfoPool>>
        ELSE IF j > n THEN
          Go(c, <<[f EXCEPT !.op = "sortValues", !.s.hasStrings = TRUE]>>, P)
        ELSE IF ~CanInterface(f.keys[j]) THEN Panic(c)
        ELSE
          /\ stack' = [stack EXCEPT ![c] =
               Replace(c, <<[f EXCEPT !.b = TRUE], Fr("Format", NoV, 0)>>)]
          /\ ctx' = [ctx EXCEPT ![c] =
               Append(@, formatState_Reset(Config, f.keys[j].n, TRUE, FALSE,
                                           "v"))]
          /\ UNCHANGED <<pc, call, res, hist, dumpStatePool, cycleInfoPool>>

\* sort.Sort with the sorter that newValuesSorter made, and the return of
\* sortValues to printMap.
sortValues(c) ==
  /\ At(c, "sortValues")
  /\ UNCHANGED <<heap, hd, bufferPool, formattersPool>>
  /\ LET r == insertionSort(Top(c).s, 2)
     IN IF r.panicked THEN Panic(c)
        ELSE /\ ReturnKeys(c, r.values)
             /\ UNCHANGED <<pc, call, ctx, res, hist, dumpStatePool,
                            cycleInfoPool>>

\* ------------------------------------------------------ top-level calls

\* A caller makes a call when it has none in progress.
CanCall(c) == pc[c] # "run"

\* The call c ends with the given status and output.
Finish(c, status, out) ==
  /\ pc' = [pc EXCEPT ![c] = status]
  /\ stack' = [stack EXCEPT ![c] = <<>>]
  /\ ctx' = [ctx EXCEPT ![c] = <<>>]
  /\ res' = [res EXCEPT ![c] = [status |-> status, out |-> out]]

\* A call of fdump begins: dumpStateGet takes a dumpState and a cycleInfo
\* from their pools and resets them.
Fdump(c, calls) ==
  /\ CanCall(c)
  /\ UNCHANGED <<heap, hd, bufferPool, formattersPool>>
  /\ \E k \in calls :
     \E did \in PoolGet(dumpStatePool), cid \in PoolGet(cycleInfoPool) :
       /\ pc' = [pc EXCEPT ![c] = "run"]
       /\ call' = [call EXCEPT ![c] = [fn |-> "fdump", a |-> k.a, cs |-> k.cs, flags |-> <<>>]]
       /\ stack' = [stack EXCEPT ![c] = <<Fr("fdump", NoV, 1)>>]
       /\ ctx' = [ctx EXCEPT ![c] = <<dumpState_Reset(did, cid, k.cs)>>]
       /\ res' = [res EXCEPT ![c] = NoRes]
       /\ hist' = [hist EXCEPT ![c] =
                     [NoHist EXCEPT
                        !.got = <<<<"ds", did>>, <<"ci", cid>>>>,
                        !.found = <<dumpStatePool[did], cycleInfoPool[cid]>>]]
       /\ dumpStatePool' = [dumpStatePool EXCEPT ![did] = HeldDs]
       /\ cycleInfoPool' = [cycleInfoPool EXCEPT ![cid] = HeldCi]

\* An fdump that leaves the pointer map as the argument before left it.
fdumpKeepPointers(P) == P

\* fdump before the dump of an argument: the pointer map is emptied.
fdumpClearPointers(P) == [P EXCEPT !.ci.pointers = EmptyMap]

\* The loop of fdump over its arguments; after the last one the deferred
\* dumpStatePut returns the cycleInfo and the dumpState.
fdump(c) ==
  /\ At(c, "fdump")
  /\ UNCHANGED <<heap, hd, bufferPool, formattersPool>>
  /\ LET f == Top(c)
         P0 == Cur(c)
         P == IF f.b THEN Wr(P0, <<newlineBytes>>) ELSE P0
         a == call[c].a
     IN IF f.i > Len(a) THEN
          /\ Finish(c, "done", P.out)
          /\ cycleInfoPool' = cycleInfoPut(cycleInfoPool, P.ci)
          /\ dumpStatePool' = dumpStatePut(dumpStatePool, P)
          /\ hist' = [hist EXCEPT ![c].put =
                        @ \o <<<<"ci", P.ci.id>>, <<"ds", P.id>>>>]
          /\ UNCHANGED <<call>>
        ELSE IF a[f.i] = NIL THEN
          Go(c, <<[f EXCEPT !.i = @ + 1, !.b = FALSE]>>,
             Wr(P, <<interfaceBytes, spaceBytes, nilAngleBytes,
                     newlineBytes>>))
        ELSE
          Go(c, <<[f EXCEPT !.i = @ + 1, !.b = TRUE],
                  Fr("dump", ValueOf(a[f.i]), 0)>>,
             fdumpClearPointers(P))

\* A formatter is made for a value (newFormatter) and fmt calls its Format
\* method with a verb and flags.
NewFormatter(c, calls) ==
  /\ CanCall(c)
  /\ UNCHANGED <<heap, hd, bufferPool, formattersPool>>
  /\ \E k \in calls :
       /\ pc' = [pc EXCEPT ![c] = "run"]
       /\ call' = [call EXCEPT ![c] =
                     [fn |-> "Format", a |-> <<k.value>>, cs |-> k.cs,
                      flags |-> <<k.sharp, k.plus, k.verb>>]]
       /\ stack' = [stack EXCEPT ![c] = <<Fr("Format", NoV, 0)>>]
       /\ ctx' = [ctx EXCEPT ![c] =
                    <<formatState_Reset(k.cs, k.value, k.sharp, k.plus, k.verb)>>]
       /\ res' = [res EXCEPT ![c] = NoRes]
       /\ hist' = [hist EXCEPT ![c] = NoHist]
       /\ UNCHANGED <<dumpStatePool, cycleInfoPool>>

\* Format returns: to fmt for a top-level call, to Sprintf in the sorter
\* for the rendering of a key.
FormatReturn(c, P) ==
  IF Len(stack[c]) = 1 THEN Finish(c, "done", P.out)
  ELSE /\ stack' = [stack EXCEPT ![c] = Replace(c, <<>>)]
       /\ ctx' = [ctx EXCEPT ![c] = SetCur(c, P)]
       /\ UNCHANGED <<pc, res>>

\* formatState.Format: step 0 is the function up to its call of format, step
\* 1 the deferred function that returns the cycleInfo.
Format(c) ==
  /\ Running(c, "Format", "format")
  /\ UNCHANGED <<heap, hd, bufferPool, formattersPool>>
  /\ LET f == Top(c)
         P == Cur(c)
     IN IF f.i = 1 THEN
          /\ FormatReturn(c, [P EXCEPT !.ci = NilCi])
          /\ cycleInfoPool' = cycleInfoPut(cycleInfoPool, P.ci)
          /\ hist' = [hist EXCEPT ![c].put = Append(@, <<"ci", P.ci.id>>)]
          /\ UNCHANGED <<call, dumpStatePool>>
        ELSE IF P.verb # "v" THEN
          /\ FormatReturn(c, Wr(P, <<"%", P.verb>>))
          /\ UNCHANGED <<call, hist, dumpStatePool, cycleInfoPool>>
        ELSE IF P.value = NIL THEN
          /\ FormatReturn(c, Wr(P, (IF P.sharp THEN <<interfaceBytes>>
                                    ELSE <<>>) \o <<nilAngleBytes>>))
          /\ UNCHANGED <<call, hist, dumpStatePool, cycleInfoPool>>
        ELSE
          \E cid \in PoolGet(cycleInfoPool) :
            /\ stack' = [stack EXCEPT ![c] =
                 Replace(c, <<[f EXCEPT !.i = 1],
                              Fr("format", ValueOf(P.value), 0)>>)]
            /\ ctx' = [ctx EXCEPT ![c] =
                 SetCur(c, [P EXCEPT !.ci = cycleInfo_Reset(cid)])]
            /\ cycleInfoPool' = [cycleInfoPool EXCEPT ![cid] = HeldCi]
            /\ hist' = [hist EXCEPT ![c].got = Append(@, <<"ci", cid>>),
                                    ![c].found = Append(@, cycleInfoPool[cid])]
            /\ UNCHANGED <<pc, call, res, dumpStatePool>>

\* ConfigState.Sprint begins: formattersGet hands out a slice with one
\* formatState for every argument.
Sprint(c, calls) ==
  /\ CanCall(c)
  /\ UNCHANGED <<heap, hd, bufferPool, dumpStatePool, cycleInfoPool>>
  /\ \E k \in calls : \E r \in formattersGet(formattersPool, k.cs, k.a) :
       /\ pc' = [pc EXCEPT ![c] = "run"]
       /\ call' = [call EXCEPT ![c] =
                     [fn |-> "Sprint", a |-> k.a, cs |-> k.cs,
                      flags |-> <<FALSE, FALSE, "v">>]]
       /\ stack' = [stack EXCEPT ![c] = <<Fr("Sprint", NoV, 1)>>]
       /\ ctx' = [ctx EXCEPT ![c] = <<sprintState(r.pv, k.cs)>>]
       /\ res' = [res EXCEPT ![c] = NoRes]
       /\ hist' = [hist EXCEPT ![c] =
                     [NoHist EXCEPT !.got = <<<<"fs", r.pv>>>>,
                                    !.found = <<r.found>>]]
       /\ formattersPool' = r.pool

\* fmt.Sprint over the formatters: Format is called on one after the other,
\* with a space between two of them; then the slice is returned to the pool.
sprint(c) ==
  /\ At(c, "Sprint")
  /\ UNCHANGED <<heap, hd, bufferPool, dumpStatePool, cycleInfoPool>>
  /\ LET f == Top(c)
         P == Cur(c)
         S == ctx[c][1]
         a == call[c].a
     IN IF f.b THEN
          \* Format has returned
          /\ stack' = [stack EXCEPT ![c] =
               <<[f EXCEPT !.b = FALSE, !.i = @ + 1]>>]
          /\ ctx' = [ctx EXCEPT ![c] =
               <<Wr(S, (IF f.i > 1 THEN <<spaceBytes>> ELSE <<>>) \o P.out)>>]
          /\ formattersPool' = formatState_Left(formattersPool, S.id, f.i, P)
          /\ UNCHANGED <<pc, call, res, hist>>
        ELSE IF f.i > Len(a) THEN
          /\ Finish(c, "done", S.out)
          /\ formattersPool' = formattersPut(formattersPool, S.id)
          /\ hist' = [hist EXCEPT ![c].put = Append(@, <<"fs", S.id>>)]
          /\ UNCHANGED <<call>>
        ELSE
          /\ stack' = [stack EXCEPT ![c] =
               <<[f EXCEPT !.b = TRUE], Fr("Format", NoV, 0)>>]
          /\ ctx' = [ctx EXCEPT ![c] =
               Append(@, formatState_At(formattersPool, S.id, f.i))]
          /\ UNCHANGED <<pc, call, res, hist, formattersPool>>

\* A panic that leaves the call with nothing deferred: the objects in use
\* are not returned.
panicWithoutDefer(c) ==
  /\ At(c, "panic")
  /\ UNCHANGED <<heap, hd, bufferPool, formattersPool, call, hist, dumpStatePool,
                 cycleInfoPool>>
  /\ IF Len(ctx[c]) = 1 THEN Finish(c, "panicked", Cur(c).out)
     ELSE /\ ctx' = [ctx EXCEPT ![c] = SubSeq(@, 1, Len(@) - 1)]
          /\ UNCHANGED <<pc, stack, res>>

\* A panic leaves the call: the deferred function of the state in use runs
\* (dumpStatePut for fdump, the function deferred by Format), and the
\* failure goes on to the caller.
panic(c) ==
  /\ At(c, "panic")
  /\ UNCHANGED <<heap, hd, bufferPool>>
  /\ LET P == Cur(c)
         S == ctx[c][1]
     IN /\ cycleInfoPool' = cycleInfoPut(cycleInfoPool, P.ci)
        /\ dumpStatePool' = IF P.mode = "dump"
                            THEN dumpStatePut(dumpStatePool, P)
                            ELSE dumpStatePool
        /\ formattersPool' =
             IF P.mode = "sprint" THEN formattersPut(formattersPool, P.id)
             ELSE IF S.mode = "sprint" /\ Len(ctx[c]) = 2
             THEN formatState_Left(formattersPool, S.id, P.id, P)
             ELSE formattersPool
        /\ hist' = [hist EXCEPT ![c].put =
                      @ \o (IF P.mode = "sprint" THEN <<<<"fs", P.id>>>>
                            ELSE <<<<"ci", P.ci.id>>>>)
                        \o (IF P.mode = "dump" THEN <<<<"ds", P.id>>>>
                            ELSE <<>>)]
        /\ IF Len(ctx[c]) = 1 THEN Finish(c, "panicked", P.out)
           ELSE /\ ctx' = [ctx EXCEPT ![c] = SubSeq(@, 1, Len(@) - 1)]
                /\ UNCHANGED <<pc, stack, res>>
        /\ UNCHANGED <<call>>

\* ------------------------------------------------- calls of the hex renderer

\* The bytes a caller writes: 0x00, 0x01, ..., or letters and the bytes
\* around the ends of the printable range.
HexPats == {1, 2}
HexByte(pat, i) ==
  CASE pat = 1 -> i % 256
    [] OTHER -> <<31, 32, 126, 127, 255, 65, 122>>[(i % 7) + 1]
HexData(pat, from, len) == [i \in 1..len |-> HexByte(pat, from + i - 1)]
HexIndents == {<<>>, <<" ", " ">>}
HexLens == {0, 1, 16, 17, MaxBytes}
WriteLens == {0, 1, 16}
PooledLens == {0, 5, 17}
HexSinks ==
  {Accepting, FailingAfter(0), FailingAfter(2), FailingAfter(9),
   FailingAfter(18)}

NotHex ==
  <<heap, pc, call, stack, ctx, res, hist, dumpStatePool, cycleInfoPool,
    formattersPool, bufferPool>>

\* dumpSlice calls hexDump with the bytes of a sequence and the indent; the
\* dumper is the one the pool keeps, which only hexDump has used.
HexDumpTo(pats, lens, sinks) ==
  /\ hd.uses < MaxUses
  /\ hd.op \in {"none", "hexDump"}
  /\ \E pat \in pats, len \in lens, ind \in HexIndents, sink \in sinks :
       LET data == HexData(pat, 0, len)
           h == hexDump(hd.h, sink, data, ind)
       IN hd' = [h |-> h, op |-> "hexDump", data |-> data, pat |-> pat,
                 uses |-> hd.uses + 1, found |-> [hd.h EXCEPT !.w = <<>>],
                 acc |-> h.ret]
  /\ UNCHANGED NotHex

\* hexDump to a sink that takes every write.
HexDump == HexDumpTo(HexPats, HexLens, {Accepting})

\* hexDump to sinks of which some fail.
HexDumpPooled == HexDumpTo({2}, PooledLens, HexSinks)

\* A call of Write on the dumper, with the bytes that follow those written.
HexWrite ==
  /\ \E len \in WriteLens,
        pat \in (IF hd.h.n = 0 /\ ~hd.h.closed THEN HexPats ELSE {hd.pat}) :
       /\ hd.h.n + len <= MaxBytes
       /\ LET data == HexData(pat, hd.h.n, len)
              h == hexDumper_Write(hd.h, data)
          IN hd' = [h |-> h, op |-> "Write", data |-> data, pat |-> pat,
                    uses |-> hd.uses, found |-> [hd.h EXCEPT !.w = <<>>],
                    acc |-> IF hd.h.closed THEN hd.acc ELSE hd.acc + h.ret]
  /\ UNCHANGED NotHex

\* A call of Close on the dumper.
HexClose ==
  /\ hd' = [hd EXCEPT !.h = hexDumper_Close(hd.h), !.op = "Close",
                      !.data = <<>>, !.found = [hd.h EXCEPT !.w = <<>>]]
  /\ UNCHANGED NotHex

\* ------------------------------------------------- calls of printHexPtr

\* The addresses given to printHexPtr, and the buffers the other users of the
\* pool (printInt, printFloat, the quoting of strings) leave in it: any
\* length within any capacity, with their text in it.
Addrs ==
  {<<0, 0, 0, 0>>, <<0, 0, 0, 1>>, <<0, 0, 0, 15>>, <<0, 0, 0, 16>>,
   <<0, 0, 0, 255>>, <<0, 0, 171, 52719>>, <<0, 0, 1, 0>>,
   <<0, 0, 65535, 65535>>, <<0, 1, 0, 0>>, <<291, 17767, 35243, 52719>>,
   <<4095, 65535, 65535, 65535>>, <<4096, 0, 0, 0>>, <<32768, 0, 0, 0>>,
   <<65535, 65535, 65535, 65535>>}
BufferCaps == {0, 8, 17, 18, 19, 24}
LeftBuffers ==
  {[mem |-> [i \in 1..cap |-> IF i <= len THEN "9" ELSE "\\0"],
    len |-> len] : cap \in BufferCaps, len \in {0, 3, 8, 19}} 

NotBuffer ==
  <<heap, pc, call, stack, ctx, res, hist, dumpStatePool, cycleInfoPool,
    formattersPool, hd>>

\* Another user of the pool takes the buffer and puts it back with its text.
BufferUse ==
  /\ bufferPool.uses < MaxUses
  /\ \E b \in LeftBuffers :
       /\ b.len <= Len(b.mem)
       /\ bufferPool' = [bufferPool EXCEPT !.b = b, !.op = "other",
                                           !.uses = @ + 1]
  /\ UNCHANGED NotBuffer

\* A call of printHexPtr.
PrintHexPtr ==
  /\ bufferPool.uses < MaxUses
  /\ \E p \in Addrs :
       \E r \in {printHexPtr_uintptr(bufferPool.b, p)} :
         bufferPool' = [b |-> r.b, op |-> "printHexPtr", p |-> p,
                        out |-> r.out, low |-> r.low,
                        panicked |-> r.panicked, found |-> bufferPool.b,
                        uses |-> bufferPool.uses + 1]
  /\ UNCHANGED NotBuffer

NextPtr == BufferUse \/ PrintHexPtr

SpecPtr == Init /\ [][NextPtr]_vars

NextHex == HexDump \/ HexWrite \/ HexClose

SpecHex == Init /\ [][NextHex]_vars

\* The pooled dumper under calls of hexDump alone, as dumpSlice makes them.
NextHexPool == HexDumpPooled

SpecHexPool == Init /\ [][NextHexPool]_vars

\* ------------------------------------------------------ specifications

Render(c) ==
  \/ fdump(c)
  \/ Format(c)
  \/ dump(c)
  \/ dumpPtr(c)
  \/ derefPtr(c)
  \/ dumpState_printArray(c)
  \/ dumpState_printStruct(c)
  \/ dumpState_printMap(c)
  \/ format(c)
  \/ formatPtr(c)
  \/ formatState_printArray(c)
  \/ formatState_printStruct(c)
  \/ formatState_printMap(c)
  \/ newValuesSorter(c)
  \/ sortValues(c)
  \/ panic(c)

\* One call after the other: the second begins when the first has ended,
\* and finds in the pools what the first has left there.
Ended(c) == pc[c] \in {"done", "panicked"}

Next ==
  \/ pc["c1"] = "idle" /\ Fdump("c1", FdumpCalls)
  \/ pc["c1"] = "idle" /\ NewFormatter("c1", FormatCalls)
  \/ Ended("c1") /\ pc["c2"] = "idle" /\ Fdump("c2", FdumpCalls)
  \/ Ended("c1") /\ pc["c2"] = "idle" /\ NewFormatter("c2", FormatCalls)
  \/ \E c \in Calls : Render(c)

Spec == Init /\ [][Next]_vars

\* Two calls in progress at once, their steps interleaved.
NextConc ==
  \/ \E c \in Calls : pc[c] = "idle" /\ Fdump(c, FdumpCallsConc)
  \/ \E c \in Calls : pc[c] = "idle" /\ NewFormatter(c, FormatCallsConc)
  \/ \E c \in Calls : Render(c)

SpecConc == Init /\ [][NextConc]_vars

\* Calls of Sprint and of fdump one after the other: the second finds in the
\* pools what the first left there.  The first calls leave a slice of one and
\* of two formatState; the second need one, two or three.
SprintCallsFirst ==
  {[a |-> <<"U1">>, cs |-> SortCfg], [a |-> <<"pS1", "slA">>, cs |-> Config],
   [a |-> <<"mInt">>, cs |-> Config]}
SprintCallsRepeated ==
  {[a |-> <<"T3">>, cs |-> Config], [a |-> <<"i1", "U1">>, cs |-> SortCfg],
   [a |-> <<"i1", "i2", "i3">>, cs |-> DepthCfg]}

NextPool ==
  \/ pc["c1"] = "idle" /\ Sprint("c1", SprintCallsFirst)
  \/ pc["c1"] = "idle" /\ Fdump("c1", FdumpCallsFirst)
  \/ Ended("c1") /\ pc["c2"] = "idle" /\ Sprint("c2", SprintCallsRepeated)
  \/ Ended("c1") /\ pc["c2"] = "idle" /\ Fdump("c2", FdumpCallsRepeated)
  \/ \E c \in Calls : Render(c) \/ sprint(c)

SpecPool == Init /\ [][NextPool]_vars

\* One call.
NextSingle ==
  \/ pc["c1"] = "idle" /\ Fdump("c1", FdumpCallsSingle)
  \/ pc["c1"] = "idle" /\ NewFormatter("c1", FormatCallsSingle)
  \/ Render("c1")

SpecSingle == Init /\ [][NextSingle]_vars

\* A call, and after it a render of a nil or an empty container.
FdumpCallsNil == {[a |-> <<r>>, cs |-> Config] : r \in {"slNil", "slE", "mNil"}}
FormatCallsNil ==
  {FormatCall(r, Config, sharp, FALSE, "v") :
     r \in {"slNil", "slE", "mNil"}, sharp \in BOOLEAN}

NextNil ==
  \/ pc["c1"] = "idle" /\ Fdump("c1", FdumpCallsSingle)
  \/ pc["c1"] = "idle" /\ NewFormatter("c1", FormatCallsSingle)
  \/ Ended("c1") /\ pc["c2"] = "idle" /\ Fdump("c2", FdumpCallsNil)
  \/ Ended("c1") /\ pc["c2"] = "idle" /\ NewFormatter("c2", FormatCallsNil)
  \/ \E c \in Calls : Render(c)

SpecNil == Init /\ [][NextNil]_vars

\* A dump repeated: after a first call, which leaves its objects in the
\* pools, the same caller makes a dump, and a second caller makes a dump
\* when that one has ended.
IsFirst(c) ==
  \/ call[c].fn = "Format"
  \/ [a |-> call[c].a, cs |-> call[c].cs] \in FdumpCallsFirst

NextRepeat ==
  \/ pc["c1"] = "idle" /\ Fdump("c1", FdumpCallsFirst)
  \/ pc["c1"] = "idle" /\ NewFormatter("c1", FormatCallsFirst)
  \/ Ended("c1") /\ IsFirst("c1") /\ Fdump("c1", FdumpCallsRepeated)
  \/ Ended("c1") /\ ~IsFirst("c1") /\ pc["c2"] = "idle"
       /\ Fdump("c2", FdumpCallsRepeated)
  \/ \E c \in Calls : Render(c)

SpecRepeat == Init /\ [][NextRepeat]_vars

\* A dump of two arguments, and after it a dump of one of them alone.
FdumpCallsArgs ==
  {[a |-> l, cs |-> Config] :
     l \in {<<"pX", "slA">>, <<"pX", "T5">>, <<"pS1", "S1">>, <<"T4", "T4">>,
            <<NIL, "slA">>, <<"slA", NIL>>}}
    \cup {[a |-> <<"pX", "U1">>, cs |-> SortCfg]}
FdumpCallsAlone ==
  {[a |-> <<l.a[k]>>, cs |-> l.cs] : l \in FdumpCallsArgs, k \in {1, 2}}

NextArgs ==
  \/ pc["c1"] = "idle" /\ Fdump("c1", FdumpCallsArgs)
  \/ pc["c1"] = "idle" /\ NewFormatter("c1", FormatCallsFirst)
  \/ Ended("c1") /\ pc["c2"] = "idle" /\ Fdump("c2", FdumpCallsAlone)
  \/ \E c \in Calls : Render(c)

SpecArgs == Init /\ [][NextArgs]_vars

\* ---------------------------------------------------------- properties

\* How many times the token x occurs in the text q.
Count(q, x) == Cardinality({i \in DOMAIN q : q[i] = x})

NoRepeat(q) == \A i, j \in DOMAIN q : q[i] = q[j] => i = j

\* The value a call renders (the first argument of fdump, the value of the
\* formatter), and the roots that contain a pointer cycle.
Arg(c) == call[c].a[1]
CyclicRoots == {"pS1", "pS2", "pI0"}
Marker(c) ==
  IF call[c].fn = "fdump" THEN circularBytes ELSE circularShortBytes

\* C1: the render of a value with a pointer cycle ends, and its output has
\* exactly one already-shown marker.  Stated on finite runs: no unwrap pass
\* of such a render follows the same pointer twice (a pass that does never
\* ends), and the output of the ended call has exactly one marker.
C1_CycleRenderedOnce ==
  \A c \in Calls :
    (call[c].fn \in {"fdump", "Format"} /\ Arg(c) \in CyclicRoots) =>
      /\ \A i \in DOMAIN ctx[c] : NoRepeat(ctx[c][i].ci.pointerChain)
      /\ pc[c] = "done" => Count(res[c].out, Marker(c)) = 1

\* C2: one unwrap pass takes no more loop steps than there are distinct
\* pointer identities in the chain it follows.
C2_UnwrapPassBounded ==
  \A c \in Calls : \A i \in DOMAIN ctx[c] :
    LET chain == ctx[c][i].ci.pointerChain
    IN Len(chain) <= Cardinality({chain[j] : j \in DOMAIN chain})

\* The addresses recorded by the pointers whose rendering is in progress in
\* call c, the pointer being unwrapped or written on top left out.
ActiveChain(c) ==
  UNION {{stack[c][k].chain[j] : j \in DOMAIN stack[c][k].chain} :
           k \in 1..(Len(stack[c]) - 1)}

\* C3: a pointer is flagged cycle-found only when its identity was recorded
\* by a pointer whose rendering is still in progress.
C3_FlaggedOnlyOnActiveChain ==
  \A c \in Calls :
    (pc[c] = "run" /\ stack[c] # <<>> /\ Top(c).op \in {"dumpPtr", "formatPtr"}
       /\ Top(c).i = 1 /\ Cur(c).ci.cycleFound) =>
      Cur(c).ci.pointerChain[Len(Cur(c).ci.pointerChain)] \in ActiveChain(c)

\* The dumpState and the cycleInfo objects a call has in use.
HeldDumpStates(c) ==
  {ctx[c][i].id : i \in {j \in DOMAIN ctx[c] : ctx[c][j].mode = "dump"}}
HeldCycleInfos(c) == {ctx[c][i].ci.id : i \in DOMAIN ctx[c]} \ {0}

\* C4: two calls in progress never have the same dumpState or the same
\* cycleInfo in use, and a cycleInfo in use is not in the pool.  A call has
\* an object in use from its Get to its Put; every call has a formatState of
\* its own.
C4_NoSharedState ==
  /\ \A c, d \in Calls :
       c # d => /\ HeldDumpStates(c) \cap HeldDumpStates(d) = {}
                /\ HeldCycleInfos(c) \cap HeldCycleInfos(d) = {}
  /\ \A c \in Calls :
       /\ \A id \in HeldCycleInfos(c) : cycleInfoPool[id].st = "held"
       /\ \A id \in HeldDumpStates(c) : dumpStatePool[id].st = "held"

\* Two calls are in progress at once: one holds two cycleInfos (its own and
\* the one of a key it renders to a string), the other holds a dumpState
\* and a cycleInfo too.
C4_TwoCallsInProgress ==
  /\ pc["c1"] = "run" /\ pc["c2"] = "run"
  /\ Cardinality(HeldCycleInfos("c1")) = 2
  /\ HeldCycleInfos("c2") # {}
  /\ HeldDumpStates("c2") # {}

\* The acquisitions of object x by call c that it has not yet returned.
Outstanding(c, x) == Count(hist[c].got, x) - Count(hist[c].put, x)

\* C5: every dumpState and cycleInfo a call acquires is returned exactly
\* once: never more returns than acquisitions, none outstanding when the
\* call has ended (normally or by a panic), and an object is out of its pool
\* exactly while an acquisition of it is outstanding.
C5_ReturnedExactlyOnce ==
  /\ \A c \in Calls : \A k \in {"ds", "ci"}, id \in ObjIds :
       /\ Outstanding(c, <<k, id>>) \in {0, 1}
       /\ pc[c] \in {"done", "panicked"} => Outstanding(c, <<k, id>>) = 0
  /\ \A id \in ObjIds :
       /\ dumpStatePool[id].st = "held"
            <=> \E c \in Calls : Outstanding(c, <<"ds", id>>) = 1
       /\ cycleInfoPool[id].st = "held"
            <=> \E c \in Calls : Outstanding(c, <<"ci", id>>) = 1

\* A call of fdump has ended by a panic after it acquired a dumpState and
\* a cycleInfo, and a call has ended after it acquired a cycleInfo for
\* each of two keys.
C5_PanickedCallReturned ==
  /\ pc["c1"] = "panicked" /\ call["c1"].fn = "fdump"
  /\ Len(hist["c1"].got) = 2 /\ Len(hist["c1"].put) = 2
  /\ pc["c2"] = "done" /\ Len(hist["c2"].got) = 4

\* The text a call has written so far.
Out(c) == IF pc[c] = "run" THEN ctx[c][1].out ELSE res[c].out

\* C6: a call of fdump never ends by a panic that reaches its caller.
C6_FdumpNeverPanics ==
  \A c \in Calls : call[c].fn = "fdump" => pc[c] # "panicked"

\* The invocations, by call c, of a method that panics.
PanickingInvocations(c) ==
  {k \in DOMAIN hist[c].invoked : heap[hist[c].invoked[k][1]].mpanic}

\* The places of the text q where a (PANIC=<message>) stands, the message
\* being that of a method that panics.
PanicTexts(q) ==
  {i \in DOMAIN q :
     /\ q[i] = panicBytes
     /\ \E n \in Nodes :
          LET m == heap[n].mtext
          IN /\ heap[n].mpanic
             /\ i + Len(m) + 1 <= Len(q)
             /\ SubSeq(q, i + 1, i + Len(m)) = m
             /\ q[i + Len(m) + 1] = closeParenBytes}

Children(n) ==
  {heap[n].elems[i] : i \in DOMAIN heap[n].elems}
    \cup {heap[n].vals[i] : i \in DOMAIN heap[n].vals}

\* C7: a panic of an Error or String method is caught in handleMethods:
\* the output has one (PANIC=<message>) for every such invocation, the call
\* does not panic, and when it has ended every element, field or entry of the
\* enclosing sequence, record or mapping has been rendered.
C7_MethodPanicContained ==
  \A c \in Calls :
    /\ Cardinality(PanicTexts(Out(c))) = Cardinality(PanickingInvocations(c))
    /\ PanickingInvocations(c) # {} =>
         /\ pc[c] # "panicked"
         /\ pc[c] = "run" => Top(c).op # "panic"
         /\ pc[c] = "done" =>
              \A n \in Children(Arg(c)) :
                \E k \in DOMAIN hist[c].visited : hist[c].visited[k] = n

\* A dump of the sequence whose first element has a String method that
\* panics has ended: the marker was written and the second element rendered.
C7_PanicInSliceRendered ==
  /\ pc["c1"] = "done" /\ call["c1"].fn = "fdump" /\ call["c1"].a = <<"slQ">>
  /\ hist["c1"].invoked = <<<<"q1", "String">>, <<"q2", "String">>>>
  /\ Cardinality(PanicTexts(res["c1"].out)) = 1

\* C8: with SortKeys, two renders of the same mapping with the same
\* configuration write the entries in the same order, whatever the orders the
\* mapping gave its keys in.
C8_SortedOrderIndependent ==
  (/\ pc["c1"] = "done" /\ pc["c2"] = "done"
   /\ call["c1"] = call["c2"]
   /\ call["c1"].cs.SortKeys
   /\ Arg("c1") \in MapRoots) =>
    res["c1"].out = res["c2"].out

\* Two ended dumps of the same acyclic value with the same configuration.
SameDumpTwice ==
  /\ pc["c1"] = "done" /\ pc["c2"] = "done"
  /\ call["c1"].fn = "fdump" /\ call["c1"] = call["c2"]
  /\ \A i \in DOMAIN call["c1"].a : call["c1"].a[i] \notin CyclicRoots

EntersTooDeep(c) ==
  /\ pc[c] = "run" /\ stack[c] # <<>>
  /\ Top(c).op \in {"printArray", "printMap", "printStruct"}
  /\ Top(c).i = 0
  /\ Cur(c).cs.MaxDepth > 0
  /\ Cur(c).depth >= Cur(c).cs.MaxDepth

\* The delimiters of a container of the kind k in the compact form.
OpenShort(k) ==
  IF k = "map" THEN openMapBytes
  ELSE IF k = "struct" THEN openBraceBytes ELSE openBracketBytes
CloseShort(k) ==
  IF k = "map" THEN closeMapBytes
  ELSE IF k = "struct" THEN closeBraceBytes ELSE closeBracketBytes

\* The text w is the opening delimiter, the depth-exceeded marker and the
\* closing delimiter of a container of kind k as the state P writes them,
\* with nothing but indentation between them.
IsMaxText(P, k, w) ==
  IF P.mode = "dump" THEN
    /\ Len(w) >= 3
    /\ w[1] = openBraceNewlineBytes /\ w[Len(w)] = closeBraceBytes
    /\ Count(w, maxNewlineBytes) = 1
    /\ \A i \in 2..(Len(w) - 1) : w[i] \in {maxNewlineBytes, P.cs.Indent}
  ELSE w = <<OpenShort(k), maxShortBytes, CloseShort(k)>>

\* The step of a call that enters a container too deep: it writes the
\* delimiters and the marker, hands nothing to dump or format, and returns
\* to the enclosing container at its depth.
MaxDepthStep(c) ==
  (EntersTooDeep(c) /\ stack'[c] # stack[c]) =>
    /\ stack'[c] = SubSeq(stack[c], 1, Len(stack[c]) - 1)
    /\ hist'[c].visited = hist[c].visited
    /\ Cur(c)'.depth = Cur(c).depth
    /\ IsMaxText(Cur(c), Kind(Top(c).v),
                 SubSeq(Cur(c)'.out, Len(Cur(c).out) + 1, Len(Cur(c)'.out)))

\* With MaxDepth above zero no value is handed to dump or format below
\* MaxDepth containers, and an ended call has rendered every field, element
\* or entry of the outermost container.
WithinMaxDepth ==
  \A c \in Calls :
    (call[c].fn # "none" /\ call[c].cs.MaxDepth > 0) =>
      /\ (pc[c] = "run" /\ Top(c).op \in {"dump", "format"}) =>
           Cur(c).depth <= Cur(c).cs.MaxDepth
      /\ pc[c] = "done" =>
           \A n \in Children(Arg(c)) :
             \E k \in DOMAIN hist[c].visited : hist[c].visited[k] = n

\* C10: with MaxDepth = N > 0, a record, sequence or mapping that
\* printArray, printMap or printStruct is entered for below N containers is
\* written as its opening delimiter, the depth-exceeded marker and its
\* closing delimiter; none of its fields, elements or entries is visited, and
\* what follows it in the enclosing container is still rendered.
C10_MaxDepthMarker ==
  [][\A c \in Calls : MaxDepthStep(c)]_vars /\ []WithinMaxDepth

\* The dump, with MaxDepth 1, of a record whose second field is a record has
\* ended: the fields of the outer record were visited, the field of the inner
\* one was not, and the marker was written once.
C10_InnerRecordMarked ==
  /\ pc["c1"] = "done" /\ call["c1"].fn = "fdump" /\ call["c1"].a = <<"N1">>
  /\ call["c1"].cs.MaxDepth = 1
  /\ hist["c1"].visited = <<"N1", "i1", "N2", "i3">>
  /\ Count(res["c1"].out, maxNewlineBytes) = 1

\* The text of line k (from 0) of the dump of data after indent: the offset
\* in eight digits, sixteen places of two digits or two spaces, each followed
\* by a space and the 8th and the 16th by one more, and the characters of the
\* bytes between two bars.
TwoDigits(b) == <<hextable[(b \div 16) + 1], hextable[(b % 16) + 1]>>
EightDigits(m) ==
  [i \in 1..8 |->
     hextable[((m \div (CASE i = 1 -> 268435456 [] i = 2 -> 16777216
                          [] i = 3 -> 1048576 [] i = 4 -> 65536
                          [] i = 5 -> 4096 [] i = 6 -> 256 [] i = 7 -> 16
                          [] OTHER -> 1)) % 16) + 1]]
RECURSIVE HexPlaces(_, _, _)
HexPlaces(data, k, j) ==
  IF j > 15 THEN <<>>
  ELSE (IF 16 * k + j + 1 <= Len(data)
        THEN TwoDigits(data[16 * k + j + 1]) ELSE <<" ", " ">>)
       \o <<" ">> \o (IF j \in {7, 15} THEN <<" ">> ELSE <<>>)
       \o HexPlaces(data, k, j + 1)
AsciiColumn(data, k) ==
  LET m == IF Len(data) - 16 * k < 16 THEN Len(data) - 16 * k ELSE 16
  IN [j \in 1..m |->
        LET b == data[16 * k + j]
        IN IF b >= 32 /\ b <= 126 THEN Printable[b - 31] ELSE "."]
HexLine(data, k, ind) ==
  ind \o EightDigits(16 * k) \o <<" ", " ">> \o HexPlaces(data, k, 0)
    \o <<"|">> \o AsciiColumn(data, k) \o <<"|", "\n">>
RECURSIVE HexLines(_, _, _)
HexLines(data, k, ind) ==
  IF 16 * k >= Len(data) THEN <<>>
  ELSE HexLine(data, k, ind) \o HexLines(data, k + 1, ind)

\* C15: hexDump of n >= 1 bytes writes ceil(n/16) lines, and line k is the
\* indent, the offset 16*k in eight hex digits, the bytes as pairs of hex
\* digits separated by a space with one more after the 8th, and the ASCII
\* column between bars at the same place in every line, the last line
\* padded with spaces.
C15_HexDumpLines ==
  (hd.op = "hexDump" /\ Len(hd.data) >= 1) =>
    /\ Count(hd.h.w, "\n") = (Len(hd.data) + 15) \div 16
    /\ hd.h.w = HexLines(hd.data, 0, hd.h.indent)

\* Seventeen bytes were dumped after an indent: two lines, the second with
\* one byte and padded.
C15_SeventeenBytesTwoLines ==
  /\ hd.op = "hexDump" /\ Len(hd.data) = 17 /\ hd.h.indent # <<>>
  /\ Count(hd.h.w, "\n") = 2
  /\ hd.pat = 2

\* C16: a Write on a closed dumper ends by the panic "dumper closed" and
\* writes nothing to the sink, whatever its argument.
C16_WriteAfterClosePanics ==
  [][(hd.h.closed /\ hd'.op = "Write") =>
       (hd'.h.panicked /\ hd'.h.w = hd.h.w)]_vars

\* A Write of one byte on a dumper that was closed after it wrote a line has
\* ended by the panic.
C16_WroteThenClosedThenWrite ==
  /\ hd.op = "Write" /\ hd.h.closed /\ hd.h.panicked
  /\ Len(hd.data) = 1 /\ hd.h.w # <<>>

\* The calls of handleMethods that printValue made in the call c.
MethodCalls(c) == {hist[c].hm[i] : i \in DOMAIN hist[c].hm}

\* The text that handleMethods writes for a method returning text, with and
\* without ContinueOnMethod.
Parenthesized(text) == <<"(">> \o text \o <<")", " ">>

\* C12: for every value with an Error or String method, with ContinueOnMethod
\* handleMethods writes the method's text in parentheses and a space, returns
\* false and the raw structure is rendered after it; without ContinueOnMethod
\* it returns true and the raw structure is not rendered.
C12_ContinueOrHandled ==
  \A c \in Calls : \A e \in MethodCalls(c) :
    heap[e.n].meth # "none" =>
      IF e.com
      THEN /\ e.out = Parenthesized(methodText(heap[e.n], e.invoked))
           /\ ~e.handled
           /\ e.raw
      ELSE e.handled /\ ~e.raw

\* C12, for methods that return normally; a method that panics leaves the
\* text of the panic, handleMethods returns false with and without
\* ContinueOnMethod, and the raw structure is rendered.
C12_ContinueOrHandledUnlessPanic ==
  \A c \in Calls : \A e \in MethodCalls(c) :
    heap[e.n].meth # "none" =>
      IF heap[e.n].mpanic
      THEN /\ ~e.handled
           /\ e.raw
           /\ e.out = (IF e.com THEN <<"(">> ELSE <<>>)
                        \o <<"(PANIC=">> \o heap[e.n].mtext \o <<")">>
      ELSE IF e.com
      THEN /\ e.out = Parenthesized(methodText(heap[e.n], e.invoked))
           /\ ~e.handled
           /\ e.raw
      ELSE e.handled /\ ~e.raw /\ e.out = methodText(heap[e.n], e.invoked)

C12_ContinuedAndHandled ==
  /\ pc["c1"] = "done"
  /\ call["c1"].cs.ContinueOnMethod
  /\ \E e \in MethodCalls("c1") : e.n = "q2" /\ e.raw /\ ~e.handled
  /\ \E e \in MethodCalls("c1") : e.n = "q1" /\ e.raw

\* The printMap of call c has its keys back from sortValues.
SorterReturned(c) ==
  /\ At(c, "printMap")
  /\ Top(c).i = 1
  /\ Cur(c).cs.SortKeys
  /\ Top(c).keys # <<>>

\* C13: keys that are not of a simply sortable shape and that all have an
\* Error or String method returning normally are left by sortValues in
\* ascending order of the methods' texts, when DisableMethods is false and
\* whatever the other options are.
C13_SortedByMethodText ==
  \A c \in Calls :
    LET keys == Top(c).keys
    IN (/\ SorterReturned(c)
        /\ ~Cur(c).cs.DisableMethods
        /\ ~canSortSimply(Kind(keys[1]))
        /\ \A k \in DOMAIN keys :
             heap[keys[k].n].meth # "none" /\ ~heap[keys[k].n].mpanic) =>
         \A i, j \in DOMAIN keys :
           i < j => ~StringLess(heap[keys[j].n].mtext, heap[keys[i].n].mtext)

\* C14: a call whose configuration has DisableMethods set invokes no Error
\* and no String method, the sorting of keys included.
C14_NoMethodInvoked ==
  \A c \in Calls : call[c].cs.DisableMethods => hist[c].invoked = <<>>

\* What a call with the default configuration writes for a nil slice and for
\* an empty one.
NilSliceText(c) ==
  IF call[c].fn = "fdump" THEN <<"(", "[]int", ")", " ", "<nil>", "\n">>
  ELSE (IF call[c].flags[1] THEN <<"(", "[]int", ")">> ELSE <<>>)
         \o <<"<nil>">>
EmptySliceText(c) ==
  IF call[c].fn = "fdump" THEN <<"(", "[]int", ")", " ", "{\n", "}", "\n">>
  ELSE (IF call[c].flags[1] THEN <<"(", "[]int", ")">> ELSE <<>>)
         \o <<"[", "]">>

\* C17: in both modes a nil slice is rendered as <nil> and an empty slice as
\* [] or as braces around nothing, and a nil slice, an empty slice and a nil
\* mapping rendered the same way give three different outputs.
C17_NilAndEmptyTellApart ==
  /\ \A c \in Calls :
       (pc[c] = "done" /\ call[c].cs = Config) =>
         /\ call[c].a = <<"slNil">> => res[c].out = NilSliceText(c)
         /\ call[c].a = <<"slE">> => res[c].out = EmptySliceText(c)
  /\ (/\ pc["c1"] = "done" /\ pc["c2"] = "done"
      /\ call["c1"].fn = call["c2"].fn
      /\ call["c1"].cs = call["c2"].cs
      /\ call["c1"].flags = call["c2"].flags
      /\ call["c1"].a # call["c2"].a
      /\ {call["c1"].a[1], call["c2"].a[1]} \subseteq {"slNil", "slE", "mNil"})
       => res["c1"].out # res["c2"].out

\* The values on which printValue's switch on the kind can run.
Dispatched(n) == n # NIL /\ heap[n].kind \notin {"ptr", "iface"}

\* C18: with methods enabled, handleMethods is called on every value that is
\* neither a pointer nor an interface when the value is handed to the
\* renderer, before anything of its shape is rendered; it is never called on
\* a pointer or an interface, but on the value these lead to.
C18_MethodsBeforeShape ==
  \A c \in Calls :
    (pc[c] # "idle" /\ ~call[c].cs.DisableMethods) =>
      /\ [i \in DOMAIN hist[c].hm |-> hist[c].hm[i].n]
           = SelectSeq(hist[c].visited, Dispatched)
      /\ \A e \in MethodCalls(c) : e.handled => ~e.raw

C18_PointerAndBoxedResolved ==
  \/ /\ pc["c1"] = "done"
     /\ hist["c1"].visited = <<"pQ2", "q2">>
     /\ \E e \in MethodCalls("c1") : e.n = "q2" /\ e.invoked = "String"
  \/ /\ pc["c1"] = "done"
     /\ hist["c1"].visited = <<"slI", "q2">>
     /\ \E e \in MethodCalls("c1") : e.n = "q2" /\ e.invoked = "String"

\* The order of the keys of a simply sortable shape: false before true,
\* numbers by their value, strings by their bytes, arrays by their first
\* elements that differ.
RECURSIVE KeyLess(_, _)
KeyLess(n1, n2) ==
  LET a == heap[n1]
      b == heap[n2]
      d == {i \in DOMAIN a.elems : ~InterfaceEq(a.elems[i], b.elems[i])}
  IN CASE a.kind = "string" -> StringLess(a.mtext, b.mtext)
       [] a.kind = "array" ->
            d # {} /\ LET i == CHOOSE k \in d : \A m \in d : k <= m
                      IN KeyLess(a.elems[i], b.elems[i])
       [] OTHER -> ~a.nan /\ ~b.nan /\ a.val < b.val

\* C19: sortValues leaves keys of a simply sortable shape as a permutation
\* of the keys of the mapping in which no key is less than an earlier one.
C19_SimpleKeysSorted ==
  \A c \in Calls :
    LET keys == Top(c).keys
    IN (SorterReturned(c) /\ canSortSimply(Kind(keys[1]))) =>
         /\ Len(keys) = ValueLen(Top(c).v)
         /\ {keys[k].n : k \in DOMAIN keys}
              = {heap[Top(c).v.n].elems[k] : k \in DOMAIN keys}
         /\ \A i, j \in DOMAIN keys :
              i < j => ~KeyLess(keys[j].n, keys[i].n)

\* C20: on a value with an Error and a String method handleMethods calls
\* Error and writes its text, and String is not called.
C20_ErrorNotString ==
  \A c \in Calls : \A e \in MethodCalls(c) :
    heap[e.n].meth = "both" =>
      /\ e.invoked = "Error"
      /\ e.out = (IF e.com THEN Parenthesized(heap[e.n].mtext)
                  ELSE heap[e.n].mtext)
      /\ \A k \in DOMAIN hist[c].invoked :
           hist[c].invoked[k][1] = e.n => hist[c].invoked[k][2] = "Error"

C20_BothMethodsValueRendered ==
  /\ pc["c1"] = "done"
  /\ call["c1"].a = <<"e1">>
  /\ \E e \in MethodCalls("c1") : e.n = "e1" /\ e.out = <<"err">>
  /\ hist["c1"].invoked = <<<<"e1", "Error">>>>

\* A cycleInfo as cycleInfo.Reset leaves it.
Cleared(ci) ==
  /\ ci.pointers = EmptyMap
  /\ ci.pointerChain = <<>>
  /\ ~ci.nilFound
  /\ ~ci.cycleFound
  /\ ci.indirects = 0

\* C11: whatever the pools hold, the objects a call acquires are cleared: the
\* cycleInfo has no pointers, no chain, no flag set and no indirections, the
\* dumpState has depth 0 and no ignore flag set, and every formatState that
\* formattersGet hands out has depth 0, ignoreNextType false and the value
\* and the configuration of the call.
C11_AcquiredObjectsCleared ==
  [][\A c \in Calls :
       (hist'[c].got # hist[c].got /\ hist'[c].got # <<>>) =>
         LET got == hist'[c].got
             last == got[Len(got)]
             P == ctx'[c][Len(ctx'[c])]
             fs == formattersPool'[last[2]].fs
             a == call'[c].a
         IN /\ last[1] = "ci" => Cleared(P.ci) /\ P.ci.id = last[2]
            /\ (last[1] = "ci" /\ P.mode = "dump") =>
                 /\ got[1] = <<"ds", P.id>>
                 /\ P.depth = 0
                 /\ ~P.ignoreNextType
                 /\ ~P.ignoreNextIndent
            /\ last[1] = "fs" =>
                 /\ Len(fs) >= Len(a)
                 /\ \A k \in 1..Len(a) :
                      /\ fs[k].depth = 0
                      /\ ~fs[k].ignoreNextType
                      /\ fs[k].value = a[k]
                      /\ fs[k].cs = call'[c].cs]_vars

C11_UsedSliceAcquired ==
  /\ call["c2"].fn = "Sprint"
  /\ Ended("c2")
  /\ hist["c2"].got[1] = hist["c1"].got[1]
  /\ hist["c2"].found[1].st = "pooled"
  /\ \E k \in DOMAIN hist["c2"].found[1].fs :
       /\ hist["c2"].found[1].fs[k].depth > 0
       /\ hist["c2"].found[1].fs[k].value # call["c2"].a[k]
  /\ Len(hist["c2"].found) > 1
  /\ hist["c2"].found[2].st = "pooled"

\* ------------------------------------------------ the open hex dumper

\* The dumper the loop of the last Write started with, and the bytes taken
\* before that Write since the dumper was set up.
WriteStart ==
  IF hd'.op = "hexDump" THEN hexDump_set(hd.h, Accepting, hd'.h.indent)
  ELSE hd.h
TakenBefore == IF hd'.op = "hexDump" THEN 0 ELSE hd.acc

\* C27: while the dumper is open and its sink takes every write, after each
\* byte of a Write used is in 0..15 and is n mod 16, n is the number of
\* bytes taken since the dumper was set up, and the right column of a line
\* is written exactly by the byte that brings used to 16, after which used
\* is 0.
C27_UsedIsNMod16 ==
  [][\A k \in 1..Len(hd'.data) :
       (hd'.op \in {"Write", "hexDump"} /\ ~WriteStart.closed) =>
         \A p \in {hexDumper_Write(WriteStart, SubSeq(hd'.data, 1, k - 1))},
            g \in {hexDumper_Write(WriteStart, SubSeq(hd'.data, 1, k))} :
         LET line == (g.n - 1) \div 16
             col == <<"|">> \o AsciiColumn(HexData(hd'.pat, 0, g.n), line)
                      \o <<"|", "\n">>
         IN /\ ~g.err /\ g.ret = k
            /\ g.used \in 0..15
            /\ g.used = g.n % 16
            /\ g.n = TakenBefore + k
            /\ Count(g.w, "\n") =
                 Count(p.w, "\n") + (IF p.used = 15 THEN 1 ELSE 0)
            /\ p.used = 15 =>
                 /\ g.used = 0
                 /\ SubSeq(g.w, Len(g.w) - 18, Len(g.w)) = col]_vars

C27_WriteAcrossLineEnd ==
  /\ hd.op = "Write" /\ ~hd.h.closed /\ ~hd.found.closed
  /\ hd.found.used = 1 /\ Len(hd.data) = 16
  /\ hd.h.n = 17 /\ hd.h.used = 1 /\ hd.acc = 17
  /\ Count(hd.h.w, "\n") = 1

\* C28: what hexDump writes depends on the data, the indent and the sink
\* alone: the pooled dumper, whatever an earlier use left in it (a line
\* partly filled, closed, an error of the sink), writes what a new dumper
\* writes, and hexDump never ends by the panic of a write after close.
C28_PooledDumperAsNew ==
  hd.op = "hexDump" =>
    /\ ~hd.h.panicked
    /\ \E sink \in HexSinks :
         LET g == hexDump(new_hexDumper, sink, hd.data, hd.h.indent)
         IN /\ g.sink = hd.h.sink
            /\ g.w = hd.h.w
            /\ g.err = hd.h.err
    /\ (~hd.h.sink.limited /\ Len(hd.data) >= 1) =>
         hd.h.w = HexLines(hd.data, 0, hd.h.indent)

C28_ReusedAfterFailedLine ==
  /\ hd.op = "hexDump" /\ hd.uses = 2
  /\ hd.found.closed /\ hd.found.err /\ hd.found.used \in 1..15
  /\ hd.found.n = 7
  /\ ~hd.h.err /\ Len(hd.data) = 17 /\ hd.h.indent # <<>>
  /\ Count(hd.h.w, "\n") = 2

\* C30: a second Close writes nothing and changes no field, and Close on a
\* dumper whose line is empty (one that took no byte too) writes nothing.
C30_CloseIdempotent ==
  [][hd'.op = "Close" =>
       /\ hd.h.closed =>
            hd'.h = [hd.h EXCEPT !.panicked = FALSE, !.err = FALSE]
       /\ hd.h.used = 0 =>
            /\ hd'.h.w = hd.h.w
            /\ hd'.h = [hd.h EXCEPT !.closed = TRUE, !.panicked = FALSE,
                                    !.err = FALSE]]_vars

C30_ClosedTwice ==
  /\ hd.op = "Close" /\ hd.found.closed /\ hd.found.used = 16
  /\ hd.h.closed /\ hd.h.n = 17 /\ Count(hd.h.w, "\n") = 2

\* ------------------------------------------------------- printHexPtr

\* The sixteen hex digits of a uint64, and a text without its leading zeros.
SixteenDigits(num) ==
  [i \in 1..16 |->
     LET limb == num[((i - 1) \div 4) + 1]
         j == (i - 1) % 4
     IN hextable[((limb \div (CASE j = 0 -> 4096 [] j = 1 -> 256
                                [] j = 2 -> 16 [] OTHER -> 1)) % 16) + 1]]
RECURSIVE NoLeadingZeros(_)
NoLeadingZeros(t) ==
  IF Len(t) > 1 /\ Head(t) = "0" THEN NoLeadingZeros(Tail(t)) ELSE t

\* C21: for every address, printHexPtr writes <nil> for 0 and else 0x and
\* the lowercase hex digits of the address without a leading zero, and the
\* index into its 18 bytes never goes below 0, whatever length and content
\* the pooled buffer had.
C21_HexOfAddress ==
  bufferPool.op = "printHexPtr" =>
    /\ ~bufferPool.panicked
    /\ bufferPool.low >= 0
    /\ bufferPool.b.len = (IF IsZero(bufferPool.p)
                           THEN bufferPool.found.len ELSE 18)
    /\ bufferPool.out =
         (IF IsZero(bufferPool.p) THEN <<nilAngleBytes>>
          ELSE <<"0", "x">> \o NoLeadingZeros(SixteenDigits(bufferPool.p)))

C21_SixteenDigitsInUsedBuffer ==
  /\ bufferPool.op = "printHexPtr"
  /\ bufferPool.p = <<65535, 65535, 65535, 65535>>
  /\ bufferPool.found.len = 19 /\ Len(bufferPool.found.mem) = 24
  /\ bufferPool.low = 0 /\ Len(bufferPool.out) = 18

\* ---------------------------------------------------- derefPtr's result

\* The step by which derefPtr returns to dumpPtr or formatPtr.
DerefPtrReturns(c) ==
  /\ At(c, "derefPtr")
  /\ pc'[c] = "run"
  /\ Len(stack'[c]) = Len(stack[c]) - 1
  /\ stack'[c][Len(stack'[c])].op \in {"dumpPtr", "formatPtr"}

\* C22: when derefPtr returns, the chain has indirects entries if no cycle
\* was found and indirects + 1 if one was, nilFound and cycleFound are not
\* both true, and no entry of the pointer map has a depth above that of this
\* pass.
C22_DerefPtrResult ==
  [][\A c \in Calls :
       DerefPtrReturns(c) =>
         LET ci == ctx'[c][Len(ctx'[c])].ci
             depth == Cur(c).depth
         IN /\ Len(ci.pointerChain) =
                 ci.indirects + (IF ci.cycleFound THEN 1 ELSE 0)
            /\ ~(ci.nilFound /\ ci.cycleFound)
            /\ ci.indirects >= 0
            /\ \A a \in DOMAIN ci.pointers : ci.pointers[a] <= depth]_vars

C22_CycleBelowDeeperPass ==
  \E c \in Calls :
    /\ pc[c] = "run" /\ stack[c] # <<>>
    /\ Top(c).op \in {"dumpPtr", "formatPtr"} /\ Top(c).i = 1
    /\ Cur(c).ci.cycleFound /\ ~Cur(c).ci.nilFound
    /\ Len(Cur(c).ci.pointerChain) = Cur(c).ci.indirects + 1
    /\ Cur(c).depth >= 1
    /\ \E a \in DOMAIN Cur(c).ci.pointers :
         Cur(c).ci.pointers[a] < Cur(c).depth

\* ------------------------------------------- the arguments of one dump

\* Whether the text q begins, or ends, with the text t.
BeginsWith(q, t) == Len(t) <= Len(q) /\ SubSeq(q, 1, Len(t)) = t
EndsWith(q, t) ==
  Len(t) <= Len(q) /\ SubSeq(q, Len(q) - Len(t) + 1, Len(q)) = t

\* C23: in one call of fdump with several arguments the pointer map is empty
\* when the render of each argument that is not nil starts, and every
\* argument is rendered as it is when it is the only one: a pointer that an
\* earlier argument showed is not an already-shown one.
C23_ArgumentsRenderedAlone ==
  /\ \A c \in Calls :
       (At(c, "dump") /\ Len(stack[c]) = 2 /\ stack[c][1].op = "fdump"
          /\ Top(c).i = 0) =>
         /\ Cur(c).ci.pointers = EmptyMap
         /\ Cur(c).depth = 0
  /\ (/\ res["c1"].status = "done" /\ res["c2"].status = "done"
      /\ call["c1"].fn = "fdump" /\ call["c2"].fn = "fdump"
      /\ Len(call["c1"].a) = 2 /\ call["c1"].cs = call["c2"].cs) =>
       /\ call["c2"].a = <<call["c1"].a[1]>> =>
            BeginsWith(res["c1"].out, res["c2"].out)
       /\ call["c2"].a = <<call["c1"].a[2]>> =>
            EndsWith(res["c1"].out, res["c2"].out)

C23_PointerShownByEarlierArgument ==
  /\ res["c1"].status = "done" /\ res["c2"].status = "done"
  /\ call["c1"].a = <<"pX", "slA">> /\ call["c2"].a = <<"slA">>
  /\ Count(res["c1"].out, circularBytes) = 0
  /\ Count(res["c1"].out, newlineBytes) > Count(res["c2"].out, newlineBytes)

\* ------------------------------------------------------------ the depth

\* The frames of printArray, printMap and printStruct that have raised the
\* depth of a state and have not returned: state k of a call is that of the
\* k-th frame of fdump or Format from the bottom, and its frames are those
\* above that frame and below the next one.
Containers == {"printArray", "printMap", "printStruct"}
RenderFrames(c) ==
  {j \in DOMAIN stack[c] : stack[c][j].op \in {"fdump", "Format"}}
RenderFrame(c, k) ==
  CHOOSE j \in RenderFrames(c) :
    Cardinality({i \in RenderFrames(c) : i <= j}) = k
OpenContainers(c, k) ==
  LET lo == RenderFrame(c, k)
      hi == IF k < Cardinality(RenderFrames(c))
            THEN RenderFrame(c, k + 1) ELSE Len(stack[c]) + 1
  IN Cardinality({j \in (lo + 1)..(hi - 1) :
                    stack[c][j].op \in Containers /\ stack[c][j].i >= 1})

\* C24: in both modes the depth is 0 when the render of a top-level argument
\* starts and when it ends, is never negative, is after printArray, printMap
\* and printStruct what it was before them (each state shows the depth as
\* the number of those that have not returned, the depth-exceeded branch
\* included), and with MaxDepth = N > 0 is never above N + 1.
C24_DepthBalanced ==
  \A c \in Calls :
    (pc[c] = "run" /\ stack[c] # <<>> /\ ~At(c, "panic")) =>
      /\ \A k \in DOMAIN ctx[c] :
           /\ ctx[c][k].depth >= 0
           /\ ctx[c][k].cs.MaxDepth # 0 =>
                ctx[c][k].depth <= ctx[c][k].cs.MaxDepth + 1
           /\ ctx[c][k].depth =
                (IF k <= Cardinality(RenderFrames(c))
                 THEN OpenContainers(c, k) ELSE 0)
      /\ Top(c).op \in {"fdump", "Format"} => Cur(c).depth = 0
      /\ (/\ Len(stack[c]) >= 2 /\ Top(c).i = 0
          /\ stack[c][Len(stack[c]) - 1].op \in {"fdump", "Format"}) =>
           Cur(c).depth = 0

C24_DepthExceededAndBack ==
  \E c \in Calls :
    /\ pc[c] = "run" /\ stack[c] # <<>>
    /\ Top(c).op \in Containers /\ Top(c).i > 1
    /\ Cur(c).cs.MaxDepth = 1 /\ Cur(c).depth = 1
    /\ \E x \in {maxNewlineBytes, maxShortBytes} : Count(Cur(c).out, x) = 1

\* ------------------------------------------------ the flags of a value

\* The state in which the render of an element, a key, a value or a field
\* of the container on top has returned to that container.
ValueReturned(c, mode) ==
  /\ Running(c, Top(c).op, mode)
  /\ Top(c).op \in Containers
  /\ Top(c).i >= 2

\* C25: with %#v, ignoreNextType set for an element, a key or a value
\* suppresses the type of that value only: once that value is rendered (a
\* nil pointer, a chain ending in nil and an already-shown pointer too) the
\* flag is false, so the type of the next sibling is written.
C25_TypeFlagClearedAfterValue ==
  \A c \in Calls :
    (ValueReturned(c, "format") /\ Cur(c).sharp) => ~Cur(c).ignoreNextType

\* C26: ignoreNextIndent, set before a mapping value or a field value, is
\* consumed by the first token of that value and is false again when the
\* render of the value returns, whatever the value is.
C26_IndentFlagClearedAfterValue ==
  \A c \in Calls :
    (/\ ValueReturned(c, "dump")
     /\ \/ Top(c).op = "printStruct"
        \/ Top(c).op = "printMap" /\ Top(c).i % 2 = 1) =>
      ~Cur(c).ignoreNextIndent

\* ------------------------------------------------- renders in the sorter

\* The frames of the sorter in the stack of a call, and the state of the
\* render that called the sorter of frame j.
SorterFrames(c) ==
  {j \in DOMAIN stack[c] : stack[c][j].op \in {"newValuesSorter", "sortValues"}}
OuterState(c, j) == Cardinality({i \in RenderFrames(c) : i < j})

\* C29: a render made while the keys are sorted (of a surrogate key, or by a
\* method) takes a cycleInfo that is not that of the render that sorts, and
\* the cycleInfo of that render (map, chain, flags, indirects) and its depth
\* are after sortValues what they were before: no step taken while the
\* sorter is at work, its return included, changes them.
C29_SorterLeavesOuterState ==
  [][\A c \in Calls :
       /\ \A j \in SorterFrames(c) :
            (pc'[c] = "run" /\ Len(stack'[c]) >= j - 1
               /\ ~(stack'[c][Len(stack'[c])].op = "panic")) =>
              LET k == OuterState(c, j)
              IN /\ ctx'[c][k].ci = ctx[c][k].ci
                 /\ ctx'[c][k].depth = ctx[c][k].depth
       /\ \A k1, k2 \in DOMAIN ctx'[c] :
            (k1 < k2 /\ ctx'[c][k2].ci.id # 0) =>
              ctx'[c][k2].ci.id # ctx'[c][k1].ci.id]_vars

C29_NestedRenderInSorter ==
  \E c \in Calls :
    /\ pc[c] = "run" /\ Len(ctx[c]) = 2
    /\ SorterFrames(c) # {}
    /\ Top(c).op = "format"
    /\ ctx[c][2].ci.id # 0 /\ ctx[c][1].ci.id # 0
    /\ ctx[c][2].depth = 0 /\ ctx[c][1].depth = 1
    /\ DOMAIN ctx[c][1].ci.pointers # {}
    /\ ctx[c][1].ci.indirects = 1

====
